---- MODULE Spec2Model ----
(***************************************************************************)
(* The persistence engine of railroad-inventory (src/app/storage.py): the  *)
(* counters document and its compare-and-swap loops, the store's save,     *)
(* delete and get over a revision-checked document store, the session, and *)
(* the query engine (filter, sort, page, total).                           *)
(*                                                                         *)
(* One entity type is modelled (Railroad: doc_type "railroad", counter_key *)
(* "railroads"); every type runs the same code.  An absent id or revision  *)
(* (Python None) is 0: ids and revisions of stored documents are >= 1.     *)
(***************************************************************************)
EXTENDS Integers, Sequences, FiniteSets, TLC

VARIABLES
  ctr,      \* the "counters" document: [rev, next, hasNext, hasTotal, total]
  docs,     \* the entity documents: id -> [rev, live, val]
  heap,     \* per process: slot -> entity object [used, id, rev, val, dirty,
            \* tracking, ref]
  cache,    \* per process: CouchStore.cache, its items [id, slot] in dict order
  pending,  \* per process: Session._pending, a sequence of slots
  pc,       \* per process: where it stands in the operation it runs
            \* ("uninit": the store has no database handle yet)
  loc,      \* per process: the locals of the running operation
  ret,      \* per process: what its last finished operation returned
  budget,   \* calls (save, delete, commit; in a session also add and
            \* assignments) the model may still start
  obs,      \* history of the finished operations, as the properties read it
  qdata,    \* query engine: the static data set, in _all_docs order
  qry,      \* query engine: a Query object [filters, sortField, sortReverse]
  qres,     \* query engine: the last call and its result
  meta      \* the documents "_design/indexes" [rev, views] and
            \* "schema_version" [rev, version, archived]

vars == <<ctr, docs, heap, cache, pending, pc, loc, ret, budget, obs, qdata, qry, qres,
          meta>>

storeVars == <<docs, heap, cache, pending>>
queryVars == <<qdata, qry, qres>>

(***************************************************************************)
(* Bounds of the model.                                                    *)
(***************************************************************************)
NCallers == 3       \* concurrent callers of next_id in SpecNextId
NProcs == 2         \* store instances (processes) in Spec
NSlots == 2         \* entity objects the process of SpecSeq, SpecSession holds
MaxId == 2          \* explicit ids run over 1..MaxId
MaxOps == 2         \* store calls started in a behaviour of Spec
MaxSeqOps == 3      \* store calls started in a behaviour of SpecSeq
MaxPending == 2     \* length of Session._pending
MaxSessionOps == 5  \* session and store calls in a behaviour of SpecSession
MaxEntityOps == 3   \* calls and assignments started in a behaviour of SpecEntity
MaxBootOps == 1     \* calls without a handle in a behaviour of SpecBoot
MaxRetryOps == 3    \* saves started in a behaviour of SpecRetry

\* `id: int | None = None` and `_rev: str | None`: the absent value.
NoId == 0
NoRev == 0

Max(a, b) == IF a >= b THEN a ELSE b
Min(a, b) == IF a <= b THEN a ELSE b

\* The counter values SpecNextId starts from (the spec's scenario uses 10).
StartCounters == {0, 10}

(***************************************************************************)
(* The counters document.  db["counters"] reads the whole document with    *)
(* its revision; db.save(doc) writes the whole document back and is        *)
(* rejected (ResourceConflict) unless the revision read is still current.  *)
(***************************************************************************)
CountersConflict(snap) == snap.rev # ctr.rev

CountersWrite(doc) == ctr' = [doc EXCEPT !.rev = ctr.rev + 1]

\* next_id: int(doc.get(counter_key, 0)) + 1
NextValue(doc) == doc.next + 1

\* The total without its floor.
TotalUnfloored(current, delta) == current + delta

\* _update_total: max(0, current_value + delta)
TotalAfter(current, delta) == Max(0, current + delta)

NoSnap == [rev |-> 0, next |-> 0, hasNext |-> FALSE, hasTotal |-> FALSE, total |-> 0]

\* Query.total() of the unfiltered default-order query: total_count(), and
\* len(all()) when the total key is missing.
QueryTotalOf(c, d) ==
  IF c.hasTotal THEN c.total ELSE Cardinality({i \in DOMAIN d : d[i].live})

QueryTotal == QueryTotalOf(ctr, docs)

(***************************************************************************)
(* The document store.  A document that was never written has revision 0;  *)
(* every accepted write or delete gives it the next revision.  db.save     *)
(* accepts a document for a live id only with the stored revision, and for *)
(* an id that is absent or deleted only without a revision.                *)
(***************************************************************************)
Vals == {"a", "b"}

NeverDoc == [rev |-> 0, live |-> FALSE, val |-> "a"]

DocOf(id) == IF id \in DOMAIN docs THEN docs[id] ELSE NeverDoc

Put(f, k, v) == [x \in DOMAIN f \cup {k} |-> IF x = k THEN v ELSE f[x]]

LiveIds == {i \in DOMAIN docs : docs[i].live}

\* db.save(doc): the revision a write must present to be accepted.
ExpectedRev(id) == IF DocOf(id).live THEN DocOf(id).rev ELSE NoRev

\* A document as it travels: a dict, here a function of its keys.  The key
\* "key" stands for "_id" and "rev" for "_rev"; doc.get(k) of a key the
\* document lacks gives the default.
DocGet(doc, k, default) == IF k \in DOMAIN doc THEN doc[k] ELSE default

\* int(doc_id.split(":")[-1]): the number after the colon of "_id".
DocKey(doc) == doc.key[2]

DocRev(doc) == DocGet(doc, "rev", NoRev)

\* A store that takes every write, whatever revision it presents.
DocAcceptsAny(doc) == TRUE

\* A store that takes a document without revision whatever it holds.
DocAcceptsNew(doc) == DocRev(doc) = NoRev \/ DocRev(doc) = ExpectedRev(DocKey(doc))

DocAccepts(doc) == DocRev(doc) = ExpectedRev(DocKey(doc))

\* self.db.get(doc_id) of a live document: what to_doc wrote, with the
\* revision the store gave it.
Stored(id) ==
  [key |-> <<"railroad", id>>, type |-> "railroad", id |-> id,
   val |-> DocOf(id).val, rev |-> DocOf(id).rev]

(***************************************************************************)
(* The design document and the schema document.  views maps the name of a  *)
(* view to its map source; a document of revision 0 does not exist.        *)
(***************************************************************************)
\* ensure_views: map_source, the text of the map function it wants, and a
\* text that differs from it.
MapSource == "emit([doc.type, doc.id], null)"
OtherSource == "emit(doc.id, null)"

\* ensure_views: view_doc["views"]
DesiredViews == [by_type_id |-> MapSource]

\* existing.get("views", {}).get("by_type_id", {}).get("map")
StoredMap(design) == DocGet(design.views, "by_type_id", "")

\* app.config["SCHEMA_VERSION"] and the version of an older release.
SchemaVersion == "1.7.0"
OlderVersion == "1.6.0"

NoDesign == [rev |-> 0, views |-> <<>>]
NoSchema == [rev |-> 0, version |-> "", archived |-> FALSE]

\* The two documents once init_app has run on a new database.
Booted ==
  [design |-> [rev |-> 1, views |-> DesiredViews],
   schema |-> [rev |-> 1, version |-> SchemaVersion, archived |-> FALSE]]

(***************************************************************************)
(* Entities.  A model class with the fields of BaseModel (id, _rev,         *)
(* _dirty, _tracking), one declared public field (val) and one declared    *)
(* underscore field (ref, as Railroad._representative_logo_ref).  The      *)
(* record fields rev, dirty, tracking and ref stand for the attributes     *)
(* whose names start with an underscore.                                   *)
(***************************************************************************)
Private == {"rev", "dirty", "tracking", "ref"}

\* None as the value of a declared field of type str | None.
NoVal == "None"

\* None as the value of the underscore field.
NoRef == 0

\* The defaults of the dataclass fields (used: the slot holds an object).
FreeObj ==
  [used |-> FALSE, id |-> NoId, rev |-> NoRev, val |-> "a", dirty |-> FALSE,
   tracking |-> FALSE, ref |-> NoRef]

\* A __setattr__ that marks a tracked entity dirty on every assignment.
SetAttrAlwaysDirty(o, name, value) ==
  LET w == [o EXCEPT ![name] = value] IN
  IF w.tracking THEN [w EXCEPT !.dirty = TRUE] ELSE w

\* BaseModel.__setattr__: the value is stored; an underscore name stops
\* there, any other name marks a tracked entity dirty.
SetAttr(o, name, value) ==
  LET w == [o EXCEPT ![name] = value] IN
  IF name \in Private THEN w
  ELSE IF w.tracking THEN [w EXCEPT !.dirty = TRUE] ELSE w

\* BaseModel.__post_init__
PostInit(o) == [o EXCEPT !.tracking = TRUE, !.dirty = FALSE]

\* cls(**data): the generated __init__ assigns every field (the ones not
\* given get their defaults), then __post_init__ runs.
Construct(data) ==
  PostInit(SetAttr(SetAttr([FreeObj EXCEPT !.used = TRUE], "id", data.id),
                   "val", data.val))

\* BaseModel.doc_id: f"{self.doc_type}:{self.id}"
DocId(o) == <<"railroad", o.id>>

\* A to_doc that carries the revision whatever it is.
ToDocWithRev(o) ==
  [key |-> DocId(o), type |-> "railroad", id |-> o.id, val |-> o.val, rev |-> o.rev]

\* A to_doc that leaves out the id field.
ToDocNoId(o) ==
  LET doc == [key |-> DocId(o), type |-> "railroad", val |-> o.val]
  IN  IF o.rev # NoRev THEN doc @@ [rev |-> o.rev] ELSE doc

\* BaseModel.to_doc: _id, type, the declared fields whose names do not
\* start with an underscore, and _rev only when the entity has one.
ToDoc(o) ==
  LET doc == [key |-> DocId(o), type |-> "railroad", id |-> o.id, val |-> o.val]
  IN  IF o.rev # NoRev THEN doc @@ [rev |-> o.rev] ELSE doc

\* BaseModel.from_doc: cls(**data) with the declared public fields read by
\* name, then _rev from the document, _dirty False, _tracking True.
FromDoc(doc) ==
  [Construct([id |-> DocGet(doc, "id", NoId), val |-> DocGet(doc, "val", NoVal)])
     EXCEPT !.rev = DocGet(doc, "rev", NoRev), !.dirty = FALSE, !.tracking = TRUE]

\* A save that takes an entity for new when it has no id.
IsNewById(o) == o.id = NoId

\* save: is_new = obj._rev is None
IsNew(o) == o.rev = NoRev

(***************************************************************************)
(* CouchStore.cache: a dict, kept as the sequence of its items in          *)
(* insertion order.                                                        *)
(***************************************************************************)
CacheHas(c, id) == \E i \in 1..Len(c) : c[i].id = id

CacheSlot(c, id) == c[CHOOSE i \in 1..Len(c) : c[i].id = id].slot

\* self.cache[key] = obj: an existing key keeps its place.
CachePut(c, id, s) ==
  IF CacheHas(c, id)
  THEN [i \in 1..Len(c) |-> IF c[i].id = id THEN [id |-> id, slot |-> s] ELSE c[i]]
  ELSE Append(c, [id |-> id, slot |-> s])

\* A delete that leaves the cache entry in place.
CacheKeep(c, id) == c

\* self.cache.pop(key, None)
CachePop(c, id) == SelectSeq(c, LAMBDA e : e.id # id)

(***************************************************************************)
(* Processes.  Each process is one store instance with its own cache and   *)
(* session.  Every round trip to the database is one step.                 *)
(***************************************************************************)
Procs == DOMAIN pc

Slots(p) == DOMAIN heap[p]

NoLocals ==
  [op |-> "none", slot |-> 0, id |-> NoId, isNew |-> FALSE, alloc |-> FALSE,
   delta |-> 0, snap |-> NoSnap, docRev |-> 0, todo |-> <<>>, seen |-> {},
   phase |-> 0, base |-> NoRev, stored |-> 0, before |-> 0, floor |-> 0,
   written |-> <<>>, start |-> 0, rev0 |-> 0, tries |-> 0, retry |-> FALSE,
   reread |-> 0, met |-> 0]

NoRet ==
  [op |-> "none", ok |-> TRUE, err |-> "", found |-> FALSE, slot |-> 0,
   id |-> NoId, isNew |-> FALSE, alloc |-> FALSE, base |-> NoRev, stored |-> 0,
   before |-> 0, after |-> 0, floor |-> 0, written |-> <<>>, delta |-> 0,
   start |-> 0, rev0 |-> 0, tries |-> 0, retry |-> FALSE, reread |-> 0,
   met |-> 0]

\* What a finished operation hands back, from its locals.
RetOf(l, ok, err, after) ==
  [NoRet EXCEPT !.op = l.op, !.ok = ok, !.err = err, !.slot = l.slot,
                !.id = l.id, !.isNew = l.isNew, !.alloc = l.alloc,
                !.base = l.base, !.stored = l.stored, !.before = l.before,
                !.after = after, !.floor = l.floor, !.written = l.written,
                !.found = (l.docRev # 0), !.delta = l.delta, !.start = l.start,
                !.rev0 = l.rev0, !.tries = l.tries, !.retry = l.retry,
                !.reread = l.reread, !.met = l.met]

\* The history the properties read.  hiExplicit: the highest explicit id a
\* finished save has written.  scn: how far the finished writes follow the
\* scenario "commit one new entity without id, commit a second, delete the
\* first" (0..3, and "off" once they leave it), with the two entities as
\* they were written.  c0: the counter the behaviour started from.
NoEntry == [id |-> NoId, val |-> "a", slot |-> 0, isNew |-> FALSE]

OneCreate(r) ==
  r.op = "commit" /\ r.ok /\ Len(r.written) = 1 /\ r.isNew /\ r.alloc

ScenarioAfter(r) ==
  CASE obs.scn = "0" /\ OneCreate(r) -> [obs EXCEPT !.scn = "1", !.first = r.written[1]]
    [] obs.scn = "1" /\ OneCreate(r) -> [obs EXCEPT !.scn = "2", !.second = r.written[1]]
    [] obs.scn = "2" /\ r.op = "delete" /\ r.ok /\ r.id = obs.first.id
         -> [obs EXCEPT !.scn = "3"]
    [] OTHER -> [obs EXCEPT !.scn = "off"]

ObsAfter(l, r) ==
  [ScenarioAfter(r) EXCEPT
     !.hiExplicit = IF l.op = "save" /\ r.ok /\ ~l.alloc THEN Max(@, l.id) ELSE @]

\* The running operation of p returns (ok) or raises (~ok).
Done(p, l, ok, err) ==
  LET r == RetOf(l, ok, err, QueryTotalOf(ctr', docs')) IN
  /\ pc' = [pc EXCEPT ![p] = "idle"]
  /\ loc' = [loc EXCEPT ![p] = NoLocals]
  /\ ret' = [ret EXCEPT ![p] = r]
  /\ obs' = ObsAfter(l, r)

\* A write to the counters document was rejected: the rejections of a
\* direct call of a counter service are counted.
Rejected(l) ==
  IF l.op \in {"next_id", "ensure", "total"} THEN [l EXCEPT !.tries = @ + 1] ELSE l

\* A step inside an operation: only its position and locals change.
Goto(p, label, l) ==
  /\ pc' = [pc EXCEPT ![p] = label]
  /\ loc' = [loc EXCEPT ![p] = l]
  /\ UNCHANGED <<ret, obs>>

(***************************************************************************)
(* Application code between store calls: building an entity, assigning a   *)
(* declared field, Session.add.                                            *)
(***************************************************************************)
\* A new object takes the first free slot of the process's heap.
HasFree(p) == \E s \in Slots(p) : ~heap[p][s].used

FreeSlot(p) == CHOOSE s \in Slots(p) :
                 ~heap[p][s].used /\ \A t \in Slots(p) : ~heap[p][t].used => s <= t

\* cls(id=..., val=...): __post_init__ leaves the entity tracked and clean.
NewObj(id, v) == Construct([id |-> id, val |-> v])

\* obj.val = v: BaseModel.__setattr__ on a public attribute of a tracked
\* entity marks it dirty.
Assigned(o, v) == SetAttr(o, "val", v)

\* BaseModel.__setattr__ on a public attribute of a tracked entity.
SetVal(p, s, v) ==
  /\ pc[p] = "idle"
  /\ heap[p][s].used
  /\ budget > 0
  /\ budget' = budget - 1
  /\ heap' = [heap EXCEPT ![p][s] = Assigned(@, v)]
  /\ UNCHANGED <<ctr, docs, cache, pending, pc, loc, ret, obs, queryVars, meta>>

\* Session.add
SessionAdd(p, s) ==
  /\ pc[p] = "idle"
  /\ heap[p][s].used
  /\ Len(pending[p]) < MaxPending
  /\ heap' = [heap EXCEPT ![p][s].dirty = TRUE]
  /\ pending' = [pending EXCEPT ![p] = Append(@, s)]
  /\ budget > 0
  /\ budget' = budget - 1
  /\ UNCHANGED <<ctr, docs, cache, pc, loc, ret, obs, queryVars, meta>>

\* The values of the underscore field: None or a related object.
Refs == {NoRef, 1}

\* cls(id=..., val=...): a request builds an entity and keeps it.
Build(p, id, v) ==
  /\ pc[p] = "idle"
  /\ HasFree(p)
  /\ budget > 0
  /\ budget' = budget - 1
  /\ heap' = [heap EXCEPT ![p][FreeSlot(p)] = NewObj(id, v)]
  /\ UNCHANGED <<ctr, docs, cache, pending, pc, loc, ret, obs, queryVars, meta>>

\* BaseModel.__setattr__ on an underscore attribute: car._railroad_ref =
\* railroad (routes.py), self._representative_logo_ref = value (models.py).
SetRef(p, s, r) ==
  /\ pc[p] = "idle"
  /\ heap[p][s].used
  /\ budget > 0
  /\ budget' = budget - 1
  /\ heap' = [heap EXCEPT ![p][s] = SetAttr(@, "ref", r)]
  /\ UNCHANGED <<ctr, docs, cache, pending, pc, loc, ret, obs, queryVars, meta>>

\* cls.from_doc(e.to_doc(), store) for the entity e of slot s: the entity
\* built takes the first free slot.  The call is recorded as returned, with
\* the slot of e in `written` and the slot of the result in `slot`.
RoundTrip(p, s) ==
  LET e == heap[p][s]
      t == FreeSlot(p)
      l == [NoLocals EXCEPT !.op = "from_doc", !.slot = t, !.id = e.id,
                            !.written = <<[id |-> e.id, val |-> e.val, slot |-> s,
                                           isNew |-> IsNew(e)]>>]
  IN
  /\ pc[p] = "idle"
  /\ e.used
  /\ HasFree(p)
  /\ heap' = [heap EXCEPT ![p][t] = FromDoc(ToDoc(e))]
  /\ UNCHANGED <<ctr, docs, cache, pending, budget, queryVars, meta>>
  /\ Done(p, l, TRUE, "")

(***************************************************************************)
(* CouchStore.save, from the call to the document write.                   *)
(***************************************************************************)
\* save: `if obj.id is None: next_id(...) else: ensure_counter_at_least(...)`
SaveCounterStep(o) == IF o.id = NoId THEN "nid_read" ELSE "ens_read"

\* next_id: doc = self.db["counters"]
AfterNextIdRead(p, l) == Goto(p, "nid_write", [l EXCEPT !.snap = ctr])

\* A save that leaves the counter alone when the entity brings its id.
AfterEnsureSkip(p, l) == Goto(p, "save_write", l)

\* ensure_counter_at_least returns: to save, which goes on to write the
\* document, or to the caller of a direct call.
EnsureDone(p, l) ==
  IF l.op = "ensure" THEN Done(p, l, TRUE, "") ELSE Goto(p, "save_write", l)

\* An ensure_counter_at_least that writes the value it is given, whatever
\* the counter holds.
AfterEnsureAlwaysWrite(p, l) == Goto(p, "ens_write", [l EXCEPT !.snap = ctr])

\* ensure_counter_at_least: doc = self.db["counters"];
\* `if current_value >= value: return`
AfterEnsureRead(p, l) ==
  IF ctr.next >= l.id
  THEN EnsureDone(p, l)
  ELSE Goto(p, "ens_write", [l EXCEPT !.snap = ctr])

\* The head of save(obj), up to its first read of the counters document:
\* prepare_save (a no-op), is_new, and the branch on obj.id.
BeginSave(p, l, o, s) ==
  LET l2 == [l EXCEPT !.slot = s, !.id = o.id, !.isNew = IsNew(o),
                      !.alloc = (o.id = NoId), !.base = o.rev, !.stored = 0,
                      !.floor = obs.hiExplicit, !.delta = 1]
  IN IF SaveCounterStep(o) = "nid_read" THEN AfterNextIdRead(p, l2)
                                        ELSE AfterEnsureRead(p, l2)

\* store.save(o), o being the object of slot s.
SaveObj(p, s, o) ==
  /\ pc[p] = "idle"
  /\ budget > 0
  /\ budget' = budget - 1
  /\ heap' = [heap EXCEPT ![p][s] = o]
  /\ BeginSave(p, [NoLocals EXCEPT !.op = "save", !.before = QueryTotal], o, s)
  /\ UNCHANGED <<ctr, docs, cache, pending, queryVars, meta>>

\* store.save(obj) of an entity the caller holds.
StartSave(p, s) ==
  /\ heap[p][s].used
  /\ SaveObj(p, s, heap[p][s])

\* A request that builds an entity and stages it: cls(...), Session.add.
AddFresh(p, id, v) ==
  /\ pc[p] = "idle"
  /\ HasFree(p)
  /\ Len(pending[p]) < MaxPending
  /\ heap' = [heap EXCEPT ![p][FreeSlot(p)] = [NewObj(id, v) EXCEPT !.dirty = TRUE]]
  /\ pending' = [pending EXCEPT ![p] = Append(@, FreeSlot(p))]
  /\ budget > 0
  /\ budget' = budget - 1
  /\ UNCHANGED <<ctr, docs, cache, pc, loc, ret, obs, queryVars, meta>>

\* A request that builds an entity and saves it.
SaveFresh(p, id, v) ==
  /\ HasFree(p)
  /\ SaveObj(p, FreeSlot(p), NewObj(id, v))

\* A request that assigns a field of an entity it holds and saves it.
SaveChanged(p, s, v) ==
  /\ heap[p][s].used
  /\ SaveObj(p, s, Assigned(heap[p][s], v))

\* save returned normally: Session.commit goes on with its loop (adding the
\* key to `seen` in its first loop), a direct save returns to the caller.
SaveDone(p, l) ==
  IF l.op = "commit"
  THEN /\ pc' = [pc EXCEPT ![p] = "commit_loop"]
       /\ loc' = [loc EXCEPT ![p] =
                    [l EXCEPT !.todo = Tail(@),
                              !.seen = IF l.phase = 1 THEN @ \cup {l.id} ELSE @]]
       /\ obs' = [obs EXCEPT !.hiExplicit = IF l.alloc THEN @ ELSE Max(@, l.id)]
       /\ UNCHANGED ret
  ELSE Done(p, l, TRUE, "")

(***************************************************************************)
(* CouchStore.next_id                                                      *)
(***************************************************************************)
CallNextId(p) ==
  /\ pc[p] = "idle"
  /\ ret[p].op = "none"
  /\ AfterNextIdRead(p, [NoLocals EXCEPT !.op = "next_id", !.rev0 = ctr.rev])
  /\ UNCHANGED <<ctr, storeVars, budget, queryVars, meta>>

\* The read of a new round of the loop.
NextIdRead(p) ==
  /\ pc[p] = "nid_read"
  /\ AfterNextIdRead(p, loc[p])
  /\ UNCHANGED <<ctr, storeVars, budget, queryVars, meta>>

\* doc[counter_key] = next_value; self.db.save(doc); return next_value
NextIdWriteOk(p) ==
  LET l == loc[p]
      v == NextValue(l.snap)
  IN
  /\ pc[p] = "nid_write"
  /\ ~CountersConflict(l.snap)
  /\ CountersWrite([l.snap EXCEPT !.next = v, !.hasNext = TRUE])
  /\ UNCHANGED <<docs, cache, pending, budget, queryVars, meta>>
  /\ IF l.op = "next_id"
     THEN /\ UNCHANGED heap
          /\ Done(p, [l EXCEPT !.id = v], TRUE, "")
     ELSE \* obj.id = ...: a public attribute, so the entity turns dirty
          /\ heap' = [heap EXCEPT ![p][l.slot] = SetAttr(@, "id", v)]
          /\ Goto(p, "save_write", [l EXCEPT !.id = v])

\* A next_id that returns the value it computed although its write was
\* rejected.
NextIdNoRetry(p) ==
  /\ pc[p] = "nid_write"
  /\ CountersConflict(loc[p].snap)
  /\ UNCHANGED <<ctr, storeVars, budget, queryVars, meta>>
  /\ Done(p, [loc[p] EXCEPT !.id = NextValue(loc[p].snap)], TRUE, "")

\* A next_id that answers a conflict by writing again the document it
\* holds, without reading the counters anew.
NextIdRetryStale(p) ==
  /\ pc[p] = "nid_write"
  /\ CountersConflict(loc[p].snap)
  /\ UNCHANGED vars

\* except http.ResourceConflict: continue
NextIdConflict(p) ==
  /\ pc[p] = "nid_write"
  /\ CountersConflict(loc[p].snap)
  /\ Goto(p, "nid_read", Rejected(loc[p]))
  /\ UNCHANGED <<ctr, storeVars, budget, queryVars, meta>>

(***************************************************************************)
(* CouchStore.ensure_counter_at_least, as save calls it with obj.id and as *)
(* an import calls it with a value (the value is kept in the local id).    *)
(***************************************************************************)
CallEnsure(p, v) ==
  /\ pc[p] = "idle"
  /\ ret[p].op = "none"
  /\ UNCHANGED <<ctr, storeVars, budget, queryVars, meta>>
  /\ AfterEnsureRead(p, [NoLocals EXCEPT !.op = "ensure", !.id = v, !.start = ctr.next,
                                         !.rev0 = ctr.rev])

\* The read of a new round of the loop.
EnsureRead(p) ==
  /\ pc[p] = "ens_read"
  /\ UNCHANGED <<ctr, storeVars, budget, queryVars, meta>>
  /\ AfterEnsureRead(p, loc[p])

EnsureWriteOk(p) ==
  LET l == loc[p] IN
  /\ pc[p] = "ens_write"
  /\ ~CountersConflict(l.snap)
  /\ CountersWrite([l.snap EXCEPT !.next = l.id, !.hasNext = TRUE])
  /\ UNCHANGED <<storeVars, budget, queryVars, meta>>
  /\ EnsureDone(p, l)

EnsureConflict(p) ==
  /\ pc[p] = "ens_write"
  /\ CountersConflict(loc[p].snap)
  /\ Goto(p, "ens_read", Rejected(loc[p]))
  /\ UNCHANGED <<ctr, storeVars, budget, queryVars, meta>>

(***************************************************************************)
(* CouchStore.save, from the document write on.                            *)
(***************************************************************************)
\* doc_id, rev = self.db.save(doc) accepted: the entity takes the new
\* revision, turns clean and becomes the cache entry of its id.
SaveWriteOk(p) ==
  LET l == loc[p]
      o == heap[p][l.slot]
      doc == ToDoc(o)
      id == DocKey(doc)
      newRev == DocOf(id).rev + 1
      l2 == [l EXCEPT !.stored = ExpectedRev(id), !.met = DocOf(id).rev,
                      !.written = Append(@, [id |-> id, val |-> doc.val, slot |-> l.slot,
                                             isNew |-> l.isNew])]
  IN
  /\ pc[p] = "save_write"
  /\ DocAccepts(doc)
  /\ docs' = Put(docs, id, [rev |-> newRev, live |-> TRUE, val |-> doc.val])
  /\ heap' = [heap EXCEPT ![p][l.slot] =
                 [SetAttr(o, "id", id) EXCEPT !.rev = newRev, !.dirty = FALSE]]
  /\ cache' = [cache EXCEPT ![p] = CachePut(@, id, l.slot)]
  /\ UNCHANGED <<ctr, pending, budget, queryVars, meta>>
  /\ IF l.isNew THEN Goto(p, "tot_read", l2) ELSE SaveDone(p, l2)

\* A save that answers a conflict by taking over the stored revision and
\* writing again.
SaveWriteRetry(p) ==
  /\ pc[p] = "save_write"
  /\ ~DocAccepts(ToDoc(heap[p][loc[p].slot]))
  /\ heap' = [heap EXCEPT ![p][loc[p].slot].rev = ExpectedRev(loc[p].id)]
  /\ UNCHANGED <<ctr, docs, cache, pending, pc, loc, ret, budget, obs, queryVars, meta>>

\* A commit that swallows the conflict of a save and goes on with its loop.
SaveWriteSkip(p) ==
  /\ pc[p] = "save_write"
  /\ ~DocAccepts(ToDoc(heap[p][loc[p].slot]))
  /\ UNCHANGED <<ctr, storeVars, budget, queryVars, meta>>
  /\ SaveDone(p, loc[p])

\* A save that raises the total although its document write was rejected.
SaveWriteConflictCounts(p) ==
  /\ pc[p] = "save_write"
  /\ ~DocAccepts(ToDoc(heap[p][loc[p].slot]))
  /\ UNCHANGED <<ctr, storeVars, budget, queryVars, meta>>
  /\ Goto(p, "tot_read", loc[p])

\* self.db.save(doc) rejected: ResourceConflict leaves save (and a commit
\* that called it) at once.
SaveWriteConflict(p) ==
  /\ pc[p] = "save_write"
  /\ ~DocAccepts(ToDoc(heap[p][loc[p].slot]))
  /\ UNCHANGED <<ctr, storeVars, budget, queryVars, meta>>
  /\ Done(p, [loc[p] EXCEPT !.met = DocOf(loc[p].id).rev], FALSE, "conflict")

(***************************************************************************)
(* CouchStore._update_total, as save (+1) and delete (-1) call it.         *)
(***************************************************************************)
\* _update_total returned: save returns; delete pops the cache entry.
TotalDone(p, l) ==
  IF l.op = "delete"
  THEN /\ cache' = [cache EXCEPT ![p] = CachePop(@, l.id)]
       /\ Done(p, l, TRUE, "")
  ELSE /\ UNCHANGED cache
       /\ SaveDone(p, l)

\* _update_total(counter_key, delta), called on its own.
CallUpdateTotal(p, delta) ==
  /\ pc[p] = "idle"
  /\ ret[p].op = "none"
  /\ UNCHANGED <<ctr, docs, heap, pending, budget, queryVars, meta>>
  /\ LET l == [NoLocals EXCEPT !.op = "total", !.delta = delta, !.before = ctr.total,
                               !.rev0 = ctr.rev] IN
     IF ctr.hasTotal
     THEN /\ Goto(p, "tot_write", [l EXCEPT !.snap = ctr])
          /\ UNCHANGED cache
     ELSE TotalDone(p, l)

\* A total update that gives up when its write is rejected.
TotConflictGiveUp(p) ==
  /\ pc[p] = "tot_write"
  /\ CountersConflict(loc[p].snap)
  /\ UNCHANGED <<ctr, docs, heap, pending, budget, queryVars, meta>>
  /\ TotalDone(p, loc[p])

\* doc = self.db["counters"]; `if total_key not in doc: return`
TotRead(p) ==
  /\ pc[p] = "tot_read"
  /\ UNCHANGED <<ctr, docs, heap, pending, budget, queryVars, meta>>
  /\ IF ctr.hasTotal
     THEN /\ Goto(p, "tot_write", [loc[p] EXCEPT !.snap = ctr])
          /\ UNCHANGED cache
     ELSE TotalDone(p, loc[p])

TotWriteOk(p) ==
  LET l == loc[p] IN
  /\ pc[p] = "tot_write"
  /\ ~CountersConflict(l.snap)
  /\ CountersWrite([l.snap EXCEPT !.total = TotalAfter(l.snap.total, l.delta)])
  /\ UNCHANGED <<docs, heap, pending, budget, queryVars, meta>>
  /\ TotalDone(p, l)

TotConflict(p) ==
  /\ pc[p] = "tot_write"
  /\ CountersConflict(loc[p].snap)
  /\ Goto(p, "tot_read", Rejected(loc[p]))
  /\ UNCHANGED <<ctr, storeVars, budget, queryVars, meta>>

(***************************************************************************)
(* CouchStore.delete (Session.delete calls it at once).                    *)
(***************************************************************************)
\* delete(obj): `if obj.id is None: return`; doc = self.db.get(doc_id);
\* without a document only the cache entry goes.
StartDelete(p, s) ==
  LET o == heap[p][s]
      d == DocOf(o.id)
      l == [NoLocals EXCEPT !.op = "delete", !.slot = s, !.id = o.id,
                            !.before = QueryTotal, !.delta = -1]
  IN
  /\ pc[p] = "idle"
  /\ budget > 0
  /\ o.used
  /\ budget' = budget - 1
  /\ UNCHANGED <<ctr, docs, heap, pending, queryVars, meta>>
  /\ IF o.id = NoId
     THEN /\ UNCHANGED cache
          /\ Done(p, l, TRUE, "")
     ELSE IF d.live
     THEN /\ UNCHANGED cache
          /\ Goto(p, "del_write", [l EXCEPT !.docRev = d.rev])
     ELSE /\ cache' = [cache EXCEPT ![p] = CachePop(@, l.id)]
          /\ Done(p, l, TRUE, "")

\* A delete that leaves the document to a later commit.
DelWriteDeferred(p) ==
  /\ pc[p] = "del_write"
  /\ DocOf(loc[p].id).live /\ DocOf(loc[p].id).rev = loc[p].docRev
  /\ pc' = [pc EXCEPT ![p] = "tot_read"]
  /\ UNCHANGED <<ctr, docs, heap, cache, pending, loc, ret, budget, obs, queryVars, meta>>

\* self.db.delete(doc), with the revision just read.
DelWriteOk(p) ==
  LET l == loc[p]
      d == DocOf(l.id)
  IN
  /\ pc[p] = "del_write"
  /\ d.live /\ d.rev = l.docRev
  /\ docs' = Put(docs, l.id, [d EXCEPT !.rev = @ + 1, !.live = FALSE])
  /\ Goto(p, "tot_read", l)
  /\ UNCHANGED <<ctr, heap, cache, pending, budget, queryVars, meta>>

\* A delete that takes a rejected db.delete for done and lowers the total.
DelWriteConflictCounts(p) ==
  /\ pc[p] = "del_write"
  /\ ~(DocOf(loc[p].id).live /\ DocOf(loc[p].id).rev = loc[p].docRev)
  /\ UNCHANGED <<ctr, storeVars, budget, queryVars, meta>>
  /\ Goto(p, "tot_read", loc[p])

\* The document changed between the read and the delete: the conflict
\* leaves delete before the total and the cache are touched.
DelWriteConflict(p) ==
  LET l == loc[p]
      d == DocOf(l.id)
  IN
  /\ pc[p] = "del_write"
  /\ ~(d.live /\ d.rev = l.docRev)
  /\ UNCHANGED <<ctr, storeVars, budget, queryVars, meta>>
  /\ Done(p, l, FALSE, "conflict")

(***************************************************************************)
(* CouchStore.get: one read of the cache, then at most one of the store.   *)
(***************************************************************************)
\* What get(id) returns to process p in the current state: the slot of the
\* cached object, else the slot a stored document is loaded into (0: None).
GetFound(p, id) == CacheHas(cache[p], id) \/ DocOf(id).live

\* A get that goes to the database on every call.
GetSlotFresh(p, id) ==
  IF DocOf(id).live /\ HasFree(p) THEN FreeSlot(p) ELSE 0

GetSlot(p, id) ==
  IF CacheHas(cache[p], id) THEN CacheSlot(cache[p], id)
  ELSE IF DocOf(id).live /\ HasFree(p) THEN FreeSlot(p) ELSE 0

\* The entity get(id) returns, when it returns one.
GetObj(p, id) ==
  IF CacheHas(cache[p], id) THEN heap[p][CacheSlot(cache[p], id)]
  ELSE FromDoc(Stored(id))

\* get(id) returning an object.  It changes the store instance when it loads
\* a document: the entity from_doc builds becomes the cache entry.  A hit
\* changes nothing.
Get(p, id) ==
  LET s == GetSlot(p, id) IN
  /\ pc[p] = "idle"
  /\ s # 0
  /\ heap' = [heap EXCEPT ![p][s] = GetObj(p, id)]
  /\ cache' = [cache EXCEPT ![p] = CachePut(@, id, s)]
  /\ UNCHANGED <<ctr, docs, pending, pc, loc, ret, budget, obs, queryVars, meta>>

\* The caller of a save that raised a conflict reads the record again with
\* get(id), assigns its change to the entity get returns and saves it.
\* reread: the revision the record has when it is read again.
RetrySave(p, v) ==
  LET id == ret[p].id
      s == GetSlot(p, id)
      o == Assigned(GetObj(p, id), v)
  IN
  /\ pc[p] = "idle"
  /\ ret[p].op = "save" /\ ~ret[p].ok
  /\ s # 0
  /\ budget > 0
  /\ budget' = budget - 1
  /\ heap' = [heap EXCEPT ![p][s] = o]
  /\ cache' = [cache EXCEPT ![p] = CachePut(@, id, s)]
  /\ UNCHANGED <<ctr, docs, pending, queryVars, meta>>
  /\ BeginSave(p, [NoLocals EXCEPT !.op = "save", !.before = QueryTotal, !.retry = TRUE,
                                   !.reread = IF DocOf(id).live THEN DocOf(id).rev ELSE 0],
               o, s)

(***************************************************************************)
(* Session.commit                                                          *)
(***************************************************************************)
\* A dirty_objects that finds nothing.
DirtySlotsNone(p) == <<>>

\* CouchStore.dirty_objects: the dirty values of the cache, in dict order.
DirtySlots(p) ==
  LET d == SelectSeq(cache[p], LAMBDA e : heap[p][e.slot].dirty)
  IN  [i \in 1..Len(d) |-> d[i].slot]

StartCommit(p) ==
  /\ pc[p] = "idle"
  /\ budget > 0
  /\ budget' = budget - 1
  /\ Goto(p, "commit_loop",
          [NoLocals EXCEPT !.op = "commit", !.todo = pending[p], !.phase = 1,
                           !.before = QueryTotal])
  /\ UNCHANGED <<ctr, storeVars, queryVars, meta>>

\* The two loops of commit, between two saves.
CommitLoop(p) ==
  LET l == loc[p] IN
  /\ pc[p] = "commit_loop"
  /\ UNCHANGED <<ctr, docs, heap, cache, budget, queryVars, meta>>
  /\ IF l.phase = 1
     THEN IF l.todo # <<>>
          THEN /\ BeginSave(p, l, heap[p][Head(l.todo)], Head(l.todo))
               /\ UNCHANGED pending
          ELSE \* self._pending.clear(); for obj in self.store.dirty_objects()
               /\ pending' = [pending EXCEPT ![p] = <<>>]
               /\ Goto(p, "commit_loop", [l EXCEPT !.phase = 2, !.todo = DirtySlots(p)])
     ELSE /\ UNCHANGED pending
          /\ IF l.todo = <<>>
             THEN Done(p, l, TRUE, "")
             ELSE IF heap[p][Head(l.todo)].id \in l.seen
                  THEN Goto(p, "commit_loop", [l EXCEPT !.todo = Tail(@)])
                  ELSE BeginSave(p, l, heap[p][Head(l.todo)], Head(l.todo))

(***************************************************************************)
(* The query engine.  The data set is static: qdata holds the entities of  *)
(* the type as store.all returns them, that is in the order of _all_docs,  *)
(* which collates the document ids "railroad:<id>" as strings.  An entity  *)
(* is [id, f, g]: f is a field that may be None, g one that never is.      *)
(***************************************************************************)
\* Python None as the value of a field.
None == 0

QIds == {1, 2, 10}
FVals == {None, 1, 2}
GVals == {1, 2}

MaxPage == 3        \* page numbers run over 0..MaxPage
MaxPerPage == 2     \* page sizes run over 0..MaxPerPage

\* getattr(item, key)
Attr(e, k) == CASE k = "id" -> e.id [] k = "f" -> e.f [] k = "g" -> e.g

Reverse(s) == [i \in 1..Len(s) |-> s[Len(s) + 1 - i]]

\* A stable sort (list.sort, the rows of a view), less[i][j] telling
\* whether s[i] is less than s[j]: an element goes after the elements that
\* are less than it and after the earlier elements that are not greater.
StableSort(s, less) ==
  LET rank(i) == Cardinality({j \in 1..Len(s) :
                    less[j][i] \/ (~less[i][j] /\ j < i)})
  IN  [k \in 1..Len(s) |-> s[CHOOSE i \in 1..Len(s) : rank(i) = k - 1]]

\* The decimal digits of an id, as they stand in the document id.
RECURSIVE Digits(_)
Digits(n) == IF n < 10 THEN <<n>> ELSE Append(Digits(n \div 10), n % 10)

\* String comparison.
RECURSIVE SeqLess(_, _)
SeqLess(a, b) ==
  IF b = <<>> THEN FALSE
  ELSE IF a = <<>> THEN TRUE
  ELSE IF Head(a) # Head(b) THEN Head(a) < Head(b)
  ELSE SeqLess(Tail(a), Tail(b))

\* "railroad:<i>" < "railroad:<j>"
DocIdLess(i, j) == SeqLess(Digits(i), Digits(j))

\* The rows of _all_docs between "railroad:" and "railroad:\ufff0" for the
\* entities of a set.
AllDocsRows(S) ==
  [k \in 1..Cardinality(S) |->
     CHOOSE e \in S : Cardinality({d \in S : DocIdLess(d.id, e.id)}) = k - 1]

\* store.all
StoreAll == qdata

\* A view that hands its rows out in the order of _all_docs.
ViewInDocIdOrder == qdata

\* The rows of the view by_type_id, keyed [doc.type, doc.id]: numbers
\* collate by value.
ViewByTypeId ==
  StableSort(qdata, [i \in 1..Len(qdata) |-> [j \in 1..Len(qdata) |->
                       qdata[i].id < qdata[j].id]])

\* limit and skip of a view request.
Rows(rows, skip, limit) == SubSeq(rows, skip + 1, Min(Len(rows), skip + limit))

\* A store.page that reads the view upwards whatever the order asked for.
StorePageAscending(page, perPage, reverse) ==
  IF perPage <= 0 THEN <<>>
  ELSE Rows(ViewByTypeId, (Max(1, page) - 1) * perPage, perPage)

\* store.page: the rows of the view from [doc_type, 0] to [doc_type, {}],
\* or with descending=True from [doc_type, {}] down to [doc_type, 0], after
\* `skip` of them and at most `limit`.
StorePage(page, perPage, reverse) ==
  IF perPage <= 0 THEN <<>>
  ELSE Rows(IF reverse THEN Reverse(ViewByTypeId) ELSE ViewByTypeId,
            (Max(1, page) - 1) * perPage, perPage)

\* A filter that keeps an item when any one of the named attributes agrees.
MatchesAny(item, filters) == \E k \in DOMAIN filters : Attr(item, k) = filters[k]

\* store.filter_by, the inner loop: every named attribute equals its value.
Matches(item, filters) == \A k \in DOMAIN filters : Attr(item, k) = filters[k]

\* store.filter_by
StoreFilterBy(filters) == SelectSeq(StoreAll, LAMBDA item : Matches(item, filters))

\* Query.all, the sort key (getattr is None, getattr): tuples compare
\* left to right, False before True, and two None are equal.
KeyLess(a, b, field) ==
  LET x == Attr(a, field)
      y == Attr(b, field)
  IN  \/ x # None /\ y = None
      \/ x # None /\ y # None /\ x < y

\* The keys of a list, compared each with each.
KeysLess(items, field) ==
  [i \in 1..Len(items) |-> [j \in 1..Len(items) |->
     KeyLess(items[i], items[j], field)]]

\* items.sort(key=..., reverse=...): a reversed sort reverses the list,
\* sorts it and reverses the outcome.
PySort(items, field, reverse) ==
  IF reverse
  THEN Reverse(StableSort(Reverse(items), KeysLess(Reverse(items), field)))
  ELSE StableSort(items, KeysLess(items, field))

\* Query.all
QueryAll(q) ==
  LET items == IF DOMAIN q.filters # {} THEN StoreFilterBy(q.filters) ELSE StoreAll
  IN  IF q.sortField # "" THEN PySort(items, q.sortField, q.sortReverse) ELSE items

\* A test that looks at the filters only.
InMemoryFiltersOnly(q) == DOMAIN q.filters # {}

\* `if self._filters or (self._sort_field and self._sort_field != "id")`
InMemory(q) == DOMAIN q.filters # {} \/ (q.sortField # "" /\ q.sortField # "id")

\* Query.total
QueryTotalQ(q) ==
  IF InMemory(q) THEN Len(QueryAll(q))
  ELSE IF ctr.hasTotal THEN ctr.total
  ELSE Len(QueryAll(q))

\* Query.total: the list self.all() hands to len, or no list when total
\* returns the stored counter.
TotalScan(q) ==
  IF InMemory(q) \/ ~ctr.hasTotal THEN QueryAll(q) ELSE <<>>

\* Query.count: len(self.all())
QueryCount(q) == Len(QueryAll(q))

\* A bound of a Python slice: a negative bound counts from the end.
PyBound(i, n) == IF i < 0 THEN Max(0, i + n) ELSE Min(i, n)

\* items[start:end]
PySlice(items, start, end) ==
  SubSeq(items, PyBound(start, Len(items)) + 1, PyBound(end, Len(items)))

\* A first index that is not held at 0.
StartIndexRaw(page, perPage) == (page - 1) * perPage

\* Query.page: start_index = max(0, (page - 1) * per_page)
StartIndex(page, perPage) == Max(0, (page - 1) * perPage)

\* Query.page
QueryPage(q, page, perPage) ==
  IF InMemory(q)
  THEN PySlice(QueryAll(q), StartIndex(page, perPage), StartIndex(page, perPage) + perPage)
  ELSE StorePage(page, perPage, q.sortReverse)

\* math.ceil(total / per_page)
Ceil(a, b) == (a + b - 1) \div b

\* paginate_query with a numeric page size: the page number is held within
\* 1..pages before Query.page is called.
PaginateQuery(q, page, perPage) ==
  LET total == QueryTotalQ(q)
      pages == IF total # 0 THEN Max(1, Ceil(total, perPage)) ELSE 1
      pg == Min(Max(1, page), pages)
  IN  [items |-> QueryPage(q, pg, perPage), page |-> pg, pages |-> pages,
       total |-> total]

\* The calls on a Query object.  None of them writes to the database.  A
\* request builds its Query object with filter_by and order_by, makes one
\* call that returns entities or a number, and is done.
QueryStep(q, r) ==
  /\ qry' = q
  /\ qres' = r
  /\ UNCHANGED <<ctr, storeVars, pc, loc, ret, budget, obs, qdata, meta>>

NoQuery == [filters |-> <<>>, sortField |-> "", sortReverse |-> FALSE]

NoResult == [op |-> "none", page |-> 0, perPage |-> 0, items |-> <<>>, n |-> 0]

Building == qres.op = "none"

\* Model.query: a new Query object for the next request.
QNew ==
  /\ ~Building
  /\ QueryStep(NoQuery, NoResult)

\* Query.filter_by: self._filters.update(filters)
QFilterBy(k, v) ==
  /\ Building
  /\ QueryStep([qry EXCEPT !.filters = Put(@, k, v)], NoResult)

\* Query.order_by
QOrderBy(field, reverse) ==
  /\ Building
  /\ QueryStep([qry EXCEPT !.sortField = field, !.sortReverse = reverse], NoResult)

QAll ==
  /\ Building
  /\ QueryStep(qry, [NoResult EXCEPT !.op = "all", !.items = QueryAll(qry)])

\* Query.total
QTotal ==
  /\ Building
  /\ QueryStep(qry, [NoResult EXCEPT !.op = "total", !.n = QueryTotalQ(qry),
                                     !.items = TotalScan(qry)])

\* Query.count
QCount ==
  /\ Building
  /\ QueryStep(qry, [NoResult EXCEPT !.op = "count", !.n = QueryCount(qry),
                                     !.items = QueryAll(qry)])

QPage(page, perPage) ==
  /\ Building
  /\ QueryStep(qry, [NoResult EXCEPT !.op = "page", !.page = page, !.perPage = perPage,
                                     !.items = QueryPage(qry, page, perPage)])

\* paginate_query(query, page, page_size) of a route; n is the page number
\* it settled on.
QPaginate(page, perPage) ==
  LET r == PaginateQuery(qry, page, perPage) IN
  /\ Building
  /\ QueryStep(qry, [NoResult EXCEPT !.op = "paginate", !.page = page, !.perPage = perPage,
                                     !.items = r.items, !.n = r.page])

(***************************************************************************)
(* CouchStore.all and CouchStore.page on the live store: every row goes    *)
(* through the cache, and only a row the cache lacks is built by from_doc. *)
(* CouchStore.filter_by hydrates through all().                            *)
(***************************************************************************)
\* The ids of the rows of _all_docs, in the order of their document ids.
AllDocsIds ==
  [k \in 1..Cardinality(LiveIds) |->
     CHOOSE i \in LiveIds : Cardinality({j \in LiveIds : DocIdLess(j, i)}) = k - 1]

\* The ids of the rows of the view by_type_id.
ViewIds ==
  [k \in 1..Cardinality(LiveIds) |->
     CHOOSE i \in LiveIds : Cardinality({j \in LiveIds : j < i}) = k - 1]

\* The ids of the rows store.page asks the view for.
PageIds(page, perPage, reverse) ==
  IF perPage <= 0 THEN <<>>
  ELSE Rows(IF reverse THEN Reverse(ViewIds) ELSE ViewIds,
            (Max(1, page) - 1) * perPage, perPage)

FirstFree(h) == CHOOSE s \in DOMAIN h :
                  ~h[s].used /\ \A t \in DOMAIN h : ~h[t].used => s <= t

\* The loop over the rows: h and c are the heap and the cache as the loop
\* leaves them, out the objects (slots) of the list it returns.
RECURSIVE Hydrate(_, _, _)
Hydrate(h, c, rows) ==
  IF rows = <<>> THEN [h |-> h, c |-> c, out |-> <<>>]
  ELSE LET id == Head(rows)
           hit == CacheHas(c, id)
           s == IF hit THEN CacheSlot(c, id) ELSE FirstFree(h)
           r == Hydrate(IF hit THEN h ELSE [h EXCEPT ![s] = FromDoc(Stored(id))],
                        IF hit THEN c ELSE CachePut(c, id, s),
                        Tail(rows))
       IN  [r EXCEPT !.out = <<s>> \o @]

\* The heap of p has room for the objects the rows need.
Fits(p, rows) ==
  Cardinality({rows[k] : k \in 1..Len(rows)} \ {e.id : e \in {cache[p][i] : i \in 1..Len(cache[p])}})
    <= Cardinality({s \in Slots(p) : ~heap[p][s].used})

Hydrated(p, rows) ==
  LET r == Hydrate(heap[p], cache[p], rows) IN
  /\ heap' = [heap EXCEPT ![p] = r.h]
  /\ cache' = [cache EXCEPT ![p] = r.c]
  /\ UNCHANGED <<ctr, docs, pending, pc, loc, ret, budget, obs, queryVars, meta>>

\* store.all(cls)
All(p) ==
  /\ pc[p] = "idle"
  /\ Fits(p, AllDocsIds)
  /\ Hydrated(p, AllDocsIds)

\* store.page(cls, page, per_page, reverse)
Page(p, page, perPage, reverse) ==
  /\ pc[p] = "idle"
  /\ Fits(p, PageIds(page, perPage, reverse))
  /\ Hydrated(p, PageIds(page, perPage, reverse))

(***************************************************************************)
(* CouchStore.init_app and the bootstrap it runs: ensure_views,            *)
(* ensure_counters, ensure_totals, ensure_schema_version.  A store that    *)
(* was built and not initialized is at "uninit": it has no handle.  Every  *)
(* round trip to the database is one step; an exception that leaves        *)
(* init_app ends the process ("crashed").                                  *)
(***************************************************************************)
Crash(p, l, err) ==
  /\ pc' = [pc EXCEPT ![p] = "crashed"]
  /\ loc' = [loc EXCEPT ![p] = NoLocals]
  /\ ret' = [ret EXCEPT ![p] = RetOf(l, FALSE, err, 0)]
  /\ UNCHANGED obs

\* init_app up to ensure_views: the handle is set and the cache emptied.
InitApp(p) ==
  /\ pc[p] = "uninit"
  /\ cache' = [cache EXCEPT ![p] = <<>>]
  /\ Goto(p, "views_read", [NoLocals EXCEPT !.op = "init_app"])
  /\ UNCHANGED <<ctr, docs, heap, pending, budget, queryVars, meta>>

\* An ensure_views that writes the design document on every run.
EnsureViewsAlwaysWrite(p) ==
  /\ pc[p] = "views_read"
  /\ UNCHANGED <<ctr, storeVars, budget, queryVars, meta>>
  /\ Goto(p, "views_write", [loc[p] EXCEPT !.snap = meta.design])

\* ensure_views: existing = self.db[design_id]; on ResourceNotFound it goes
\* on to create view_doc, on a map that differs to save `existing` with
\* the wanted views, and returns otherwise.
EnsureViewsRead(p) ==
  /\ pc[p] = "views_read"
  /\ UNCHANGED <<ctr, storeVars, budget, queryVars, meta>>
  /\ IF meta.design.rev = 0 \/ StoredMap(meta.design) # MapSource
     THEN Goto(p, "views_write", [loc[p] EXCEPT !.snap = meta.design])
     ELSE Goto(p, "ctrs_read", loc[p])

\* self.db[design_id] = view_doc, or existing["views"] = view_doc["views"];
\* self.db.save(existing): accepted when the document is as it was read.
EnsureViewsWriteOk(p) ==
  /\ pc[p] = "views_write"
  /\ loc[p].snap.rev = meta.design.rev
  /\ meta' = [meta EXCEPT !.design = [loc[p].snap EXCEPT !.views = DesiredViews,
                                                          !.rev = @ + 1]]
  /\ UNCHANGED <<ctr, storeVars, budget, queryVars>>
  /\ Goto(p, "ctrs_read", [loc[p] EXCEPT !.snap = NoSnap])

\* ... rejected: ResourceConflict is not caught.
EnsureViewsConflict(p) ==
  /\ pc[p] = "views_write"
  /\ loc[p].snap.rev # meta.design.rev
  /\ UNCHANGED <<ctr, storeVars, budget, queryVars, meta>>
  /\ Crash(p, loc[p], "conflict")

\* An ensure_counters that sets the key to 0 whatever the document holds.
EnsureCountersReset(p) ==
  /\ pc[p] = "ctrs_read"
  /\ UNCHANGED <<ctr, storeVars, budget, queryVars, meta>>
  /\ Goto(p, "ctrs_write", [loc[p] EXCEPT !.snap = [ctr EXCEPT !.hasNext = TRUE, !.next = 0]])

\* ensure_counters: doc = self.db["counters"]; on ResourceNotFound a new
\* document with every key at 0; else the missing keys are added as 0 and
\* the document is saved only if one was added.
EnsureCountersRead(p) ==
  /\ pc[p] = "ctrs_read"
  /\ UNCHANGED <<ctr, storeVars, budget, queryVars, meta>>
  /\ IF ctr.rev = 0 \/ ~ctr.hasNext
     THEN Goto(p, "ctrs_write", [loc[p] EXCEPT !.snap = [ctr EXCEPT !.hasNext = TRUE, !.next = 0]])
     ELSE Goto(p, "tots_read", loc[p])

EnsureCountersWriteOk(p) ==
  /\ pc[p] = "ctrs_write"
  /\ ~CountersConflict(loc[p].snap)
  /\ CountersWrite(loc[p].snap)
  /\ UNCHANGED <<storeVars, budget, queryVars, meta>>
  /\ Goto(p, "tots_read", [loc[p] EXCEPT !.snap = NoSnap])

EnsureCountersConflict(p) ==
  /\ pc[p] = "ctrs_write"
  /\ CountersConflict(loc[p].snap)
  /\ UNCHANGED <<ctr, storeVars, budget, queryVars, meta>>
  /\ Crash(p, loc[p], "conflict")

\* ensure_totals: doc = self.db["counters"] (a new dict on
\* ResourceNotFound); `if total_key in doc: continue`
EnsureTotalsRead(p) ==
  /\ pc[p] = "tots_read"
  /\ UNCHANGED <<ctr, storeVars, budget, queryVars, meta>>
  /\ IF ctr.hasTotal
     THEN Goto(p, "schema_read", loc[p])
     ELSE Goto(p, "tots_count", [loc[p] EXCEPT !.snap = ctr])

\* doc[total_key] = self._count_docs(doc_type): a read of _all_docs
EnsureTotalsCount(p) ==
  /\ pc[p] = "tots_count"
  /\ UNCHANGED <<ctr, storeVars, budget, queryVars, meta>>
  /\ Goto(p, "tots_write", [loc[p] EXCEPT !.snap.hasTotal = TRUE,
                                          !.snap.total = Cardinality(LiveIds)])

\* `if updated: self.db.save(doc)`
EnsureTotalsWriteOk(p) ==
  /\ pc[p] = "tots_write"
  /\ ~CountersConflict(loc[p].snap)
  /\ CountersWrite(loc[p].snap)
  /\ UNCHANGED <<storeVars, budget, queryVars, meta>>
  /\ Goto(p, "schema_read", [loc[p] EXCEPT !.snap = NoSnap])

EnsureTotalsConflict(p) ==
  /\ pc[p] = "tots_write"
  /\ CountersConflict(loc[p].snap)
  /\ UNCHANGED <<ctr, storeVars, budget, queryVars, meta>>
  /\ Crash(p, loc[p], "conflict")

\* ensure_schema_version: doc = self.db[doc_id]; on ResourceNotFound it
\* creates the document, on another version it saves the new one; else
\* init_app returns.
EnsureSchemaRead(p) ==
  /\ pc[p] = "schema_read"
  /\ UNCHANGED <<ctr, storeVars, budget, queryVars, meta>>
  /\ IF meta.schema.rev = 0 \/ meta.schema.version # SchemaVersion
     THEN Goto(p, "schema_write", [loc[p] EXCEPT !.snap = meta.schema])
     ELSE Goto(p, "idle", NoLocals)

\* self.db[doc_id] = {...}, or doc["version"] = version; self.db.save(doc);
\* ensure_schema_backup(self.db, version).  init_app returns.
EnsureSchemaWriteOk(p) ==
  /\ pc[p] = "schema_write"
  /\ loc[p].snap.rev = meta.schema.rev
  /\ meta' = [meta EXCEPT !.schema = [rev |-> @.rev + 1, version |-> SchemaVersion,
                                      archived |-> @.archived \/ @.rev # 0]]
  /\ UNCHANGED <<ctr, storeVars, budget, queryVars>>
  /\ Goto(p, "idle", NoLocals)

EnsureSchemaConflict(p) ==
  /\ pc[p] = "schema_write"
  /\ loc[p].snap.rev # meta.schema.rev
  /\ UNCHANGED <<ctr, storeVars, budget, queryVars, meta>>
  /\ Crash(p, loc[p], "conflict")

(***************************************************************************)
(* Calls on a store that has no handle (`if not self.db`).                 *)
(***************************************************************************)
\* The call of p returns or raises at once; the store stays without handle.
Refused(p, l, ok, err) ==
  /\ ret' = [ret EXCEPT ![p] = RetOf(l, ok, err, QueryTotal)]
  /\ budget > 0
  /\ budget' = budget - 1
  /\ UNCHANGED <<pc, loc, obs>>

\* A next_id that answers None when there is no handle.
NextIdNoDbSilent(p) ==
  /\ pc[p] = "uninit"
  /\ UNCHANGED <<ctr, storeVars, queryVars, meta>>
  /\ Refused(p, [NoLocals EXCEPT !.op = "next_id"], TRUE, "")

\* next_id: raise RuntimeError("CouchDB is not initialized.")
NextIdNoDb(p) ==
  /\ pc[p] = "uninit"
  /\ UNCHANGED <<ctr, storeVars, queryVars, meta>>
  /\ Refused(p, [NoLocals EXCEPT !.op = "next_id"], FALSE, "not initialized")

\* save(obj) of an entity the request has built: raise RuntimeError.
SaveNoDb(p, id, v) ==
  /\ pc[p] = "uninit"
  /\ HasFree(p)
  /\ heap' = [heap EXCEPT ![p][FreeSlot(p)] = NewObj(id, v)]
  /\ UNCHANGED <<ctr, docs, cache, pending, queryVars, meta>>
  /\ Refused(p, [NoLocals EXCEPT !.op = "save", !.slot = FreeSlot(p), !.id = id,
                                 !.isNew = TRUE, !.alloc = (id = NoId)],
             FALSE, "not initialized")

\* delete(obj) of an entity the request has built:
\* `if not self.db or obj.id is None: return`
DeleteNoDb(p, id, v) ==
  /\ pc[p] = "uninit"
  /\ HasFree(p)
  /\ heap' = [heap EXCEPT ![p][FreeSlot(p)] = NewObj(id, v)]
  /\ UNCHANGED <<ctr, docs, cache, pending, queryVars, meta>>
  /\ Refused(p, [NoLocals EXCEPT !.op = "delete", !.slot = FreeSlot(p), !.id = id],
             TRUE, "")

(***************************************************************************)
(* Initial states and specifications.                                      *)
(***************************************************************************)
\* A store right after init_app on an empty database, and one that holds a
\* single railroad: the counter and the total agree with the documents.
EmptyStore ==
  [c |-> [rev |-> 1, next |-> 0, hasNext |-> TRUE, hasTotal |-> TRUE, total |-> 0], d |-> <<>>]

OneDocStore ==
  [c |-> [rev |-> 3, next |-> 1, hasNext |-> TRUE, hasTotal |-> TRUE, total |-> 1],
   d |-> (1 :> [rev |-> 1, live |-> TRUE, val |-> "a"])]

InitQueryIdle ==
  /\ qdata = <<>>
  /\ qry = NoQuery
  /\ qres = NoResult

InitProcs(P, S, n) ==
  /\ pc = [p \in P |-> "idle"]
  /\ loc = [p \in P |-> NoLocals]
  /\ ret = [p \in P |-> NoRet]
  /\ heap = [p \in P |-> [s \in S |-> FreeObj]]
  /\ cache = [p \in P |-> <<>>]
  /\ pending = [p \in P |-> <<>>]
  /\ budget = n
  /\ meta = Booted
  /\ obs = [scn |-> IF docs = <<>> THEN "0" ELSE "off", first |-> NoEntry,
            second |-> NoEntry, hiExplicit |-> 0, c0 |-> ctr.next]

\* The store steps every specification shares.
StoreStep(p) ==
  \/ NextIdRead(p) \/ NextIdWriteOk(p) \/ NextIdConflict(p)
  \/ EnsureRead(p) \/ EnsureWriteOk(p) \/ EnsureConflict(p)
  \/ SaveWriteOk(p) \/ SaveWriteConflict(p)
  \/ TotRead(p) \/ TotWriteOk(p) \/ TotConflict(p)
  \/ DelWriteOk(p) \/ DelWriteConflict(p)

\* Spec: NProcs store instances, each working on one entity object, saving,
\* deleting and reading concurrently against one database.  A request
\* either builds an entity and saves it, changes the one it holds and saves
\* it, deletes it, or loads one by id.
Init ==
  /\ \E st \in {EmptyStore, OneDocStore} : ctr = st.c /\ docs = st.d
  /\ InitProcs(1..NProcs, {1}, MaxOps)
  /\ InitQueryIdle

Next ==
  \E p \in 1..NProcs :
    \/ \E id \in 0..MaxId : SaveFresh(p, id, "a")
    \/ \E v \in Vals : SaveChanged(p, 1, v)
    \/ StartDelete(p, 1)
    \/ \E id \in 1..MaxId : Get(p, id)
    \/ StoreStep(p)

Spec == Init /\ [][Next]_vars

\* SpecSeq: one store instance holding up to NSlots entities and calling
\* save, delete and get with no concurrent writer; the total key may be
\* missing from the counters document.
InitSeq ==
  /\ \E st \in {EmptyStore, OneDocStore}, t \in BOOLEAN :
       /\ ctr = [st.c EXCEPT !.hasTotal = t, !.total = IF t THEN @ ELSE 0]
       /\ docs = st.d
  /\ InitProcs({1}, 1..NSlots, MaxSeqOps)
  /\ InitQueryIdle

NextSeq ==
  \/ \E id \in 0..MaxId : SaveFresh(1, id, "a")
  \/ \E s \in 1..NSlots, v \in Vals : SaveChanged(1, s, v)
  \/ \E s \in 1..NSlots : StartSave(1, s)
  \/ \E s \in 1..NSlots : StartDelete(1, s)
  \/ \E id \in 1..MaxId : Get(1, id)
  \/ All(1)
  \/ \E page \in 1..2, reverse \in BOOLEAN : Page(1, page, 1, reverse)
  \/ NextIdWriteOk(1) \/ EnsureWriteOk(1)
  \/ SaveWriteOk(1) \/ SaveWriteConflict(1)
  \/ TotRead(1) \/ TotWriteOk(1)
  \/ DelWriteOk(1)

SpecSeq == InitSeq /\ [][NextSeq]_vars

\* SpecSession: one store instance used through its session: requests stage
\* new entities, change and re-stage held ones, commit, delete and get.
InitSession ==
  /\ \E st \in {EmptyStore, OneDocStore} : ctr = st.c /\ docs = st.d
  /\ InitProcs({1}, 1..NSlots, MaxSessionOps)
  /\ InitQueryIdle

NextSession ==
  \/ \E id \in 0..MaxId : AddFresh(1, id, "a")
  \/ \E s \in 1..NSlots, v \in Vals : SetVal(1, s, v)
  \/ \E s \in 1..NSlots : SessionAdd(1, s)
  \/ \E s \in 1..NSlots : StartDelete(1, s)
  \/ \E id \in 1..MaxId : Get(1, id)
  \/ StartCommit(1)
  \/ CommitLoop(1)
  \/ NextIdWriteOk(1) \/ EnsureWriteOk(1)
  \/ SaveWriteOk(1) \/ SaveWriteConflict(1)
  \/ TotRead(1) \/ TotWriteOk(1)
  \/ DelWriteOk(1)

SpecSession == InitSession /\ [][NextSession]_vars

\* SpecEntity: one store instance and the entities a request handles: it
\* builds them, assigns public and underscore attributes, stages them,
\* saves them, loads them by id, and converts them to documents and back.
InitEntity ==
  /\ \E st \in {EmptyStore, OneDocStore} : ctr = st.c /\ docs = st.d
  /\ InitProcs({1}, 1..NSlots, MaxEntityOps)
  /\ InitQueryIdle

NextEntity ==
  \/ \E id \in 0..MaxId, v \in Vals : Build(1, id, v)
  \/ \E s \in 1..NSlots, v \in Vals : SetVal(1, s, v)
  \/ \E s \in 1..NSlots, r \in Refs : SetRef(1, s, r)
  \/ \E s \in 1..NSlots : SessionAdd(1, s)
  \/ \E s \in 1..NSlots : StartSave(1, s)
  \/ \E id \in 1..MaxId : Get(1, id)
  \/ All(1)
  \/ \E reverse \in BOOLEAN : Page(1, 1, 1, reverse)
  \/ \E s \in 1..NSlots : RoundTrip(1, s)
  \/ NextIdWriteOk(1) \/ EnsureWriteOk(1)
  \/ SaveWriteOk(1) \/ SaveWriteConflict(1)
  \/ TotRead(1) \/ TotWriteOk(1)

SpecEntity == InitEntity /\ [][NextEntity]_vars

\* SpecNextId: NCallers processes that call next_id once each, from a
\* counter of 0 or 10.
InitNextId ==
  /\ \E c \in StartCounters :
       ctr = [rev |-> 1, next |-> c, hasNext |-> TRUE, hasTotal |-> TRUE, total |-> 0]
  /\ docs = <<>>
  /\ InitProcs(1..NCallers, {1}, 0)
  /\ InitQueryIdle

NextNextId ==
  \E p \in 1..NCallers :
    CallNextId(p) \/ NextIdRead(p) \/ NextIdWriteOk(p) \/ NextIdConflict(p)

SpecNextId == InitNextId /\ [][NextNextId]_vars

\* SpecCounters: NCallers processes that each call one of next_id,
\* ensure_counter_at_least and _update_total, all on the same key, from a
\* counter of 10.  The total starts high enough for the floor to stay out
\* of reach.
CounterStart == CHOOSE c \in StartCounters : \A d \in StartCounters : d <= c
EnsureVals == {CounterStart + 1, CounterStart + 2}
Deltas == {-1, 1}
TotalStart == NCallers

InitCounters ==
  /\ ctr = [rev |-> 1, next |-> CounterStart, hasNext |-> TRUE, hasTotal |-> TRUE, total |-> TotalStart]
  /\ docs = <<>>
  /\ InitProcs(1..NCallers, {1}, 0)
  /\ InitQueryIdle

CounterStep(p) ==
  \/ NextIdRead(p) \/ NextIdWriteOk(p) \/ NextIdConflict(p)
  \/ EnsureRead(p) \/ EnsureWriteOk(p) \/ EnsureConflict(p)
  \/ TotRead(p) \/ TotWriteOk(p) \/ TotConflict(p)

NextCounters ==
  \E p \in 1..NCallers :
    \/ CallNextId(p)
    \/ \E v \in EnsureVals : CallEnsure(p, v)
    \/ \E d \in Deltas : CallUpdateTotal(p, d)
    \/ CounterStep(p)

SpecCounters == InitCounters /\ [][NextCounters]_vars

\* The same with fair scheduling: every caller is a running thread of
\* control, and each step of a call (a blocking round trip to the database)
\* is taken once the caller is at it.  Starting a call is not forced.  The
\* calls take one argument each: ensure_counter_at_least the counter's start
\* plus two (above the counter, or met by it after two next_id), the total
\* update +1.
NextCountersFair ==
  \E p \in 1..NCallers :
    \/ CallNextId(p)
    \/ CallEnsure(p, CounterStart + 2)
    \/ CallUpdateTotal(p, 1)
    \/ CounterStep(p)

FairSpecCounters ==
  /\ InitCounters
  /\ [][NextCountersFair]_vars
  /\ \A p \in 1..NCallers : WF_vars(CounterStep(p))

\* SpecDelete: the store instances of Spec, with requests that delete an
\* entity they have just built (it has no id), one they have loaded or one
\* they have saved, while the others save and delete.
NextDelete ==
  \E p \in 1..NProcs :
    \/ Build(p, NoId, "a")
    \/ \E id \in 0..MaxId : SaveFresh(p, id, "a")
    \/ StartDelete(p, 1)
    \/ \E id \in 1..MaxId : Get(p, id)
    \/ StoreStep(p)

SpecDelete == Init /\ [][NextDelete]_vars

\* SpecBoot: NProcs store instances are built against one database, which
\* is new, or was left by an older release (no total, another map function,
\* an older schema version), or holds a counters document that lacks the
\* key, or is up to date.  Each instance may be called before init_app
\* (it has no handle then), runs init_app, and then calls the counter
\* services, while the others are at any point of the same.
FreshDb ==
  [c |-> NoSnap, d |-> <<>>, m |-> [design |-> NoDesign, schema |-> NoSchema]]

LegacyDb ==
  [c |-> [rev |-> 2, next |-> 1, hasNext |-> TRUE, hasTotal |-> FALSE, total |-> 0],
   d |-> OneDocStore.d,
   m |-> [design |-> [rev |-> 1, views |-> [by_type_id |-> OtherSource]],
          schema |-> [rev |-> 1, version |-> OlderVersion, archived |-> FALSE]]]

KeylessDb ==
  [c |-> [rev |-> 1, next |-> 0, hasNext |-> FALSE, hasTotal |-> TRUE, total |-> 0],
   d |-> <<>>,
   m |-> [design |-> [rev |-> 1, views |-> [by_name |-> OtherSource]],
          schema |-> Booted.schema]]

CurrentDb ==
  [c |-> OneDocStore.c, d |-> OneDocStore.d,
   m |-> [design |-> [rev |-> 2, views |-> [by_type_id |-> MapSource,
                                            by_name |-> OtherSource]],
          schema |-> Booted.schema]]

InitBoot ==
  /\ \E db \in {FreshDb, LegacyDb, KeylessDb, CurrentDb} :
       ctr = db.c /\ docs = db.d /\ meta = db.m
  /\ pc = [p \in 1..NProcs |-> "uninit"]
  /\ loc = [p \in 1..NProcs |-> NoLocals]
  /\ ret = [p \in 1..NProcs |-> NoRet]
  /\ heap = [p \in 1..NProcs |-> [s \in {1} |-> FreeObj]]
  /\ cache = [p \in 1..NProcs |-> <<>>]
  /\ pending = [p \in 1..NProcs |-> <<>>]
  /\ budget = MaxBootOps
  /\ obs = [scn |-> "off", first |-> NoEntry, second |-> NoEntry, hiExplicit |-> 0,
            c0 |-> ctr.next]
  /\ InitQueryIdle

BootStep(p) ==
  \/ EnsureViewsRead(p) \/ EnsureViewsWriteOk(p) \/ EnsureViewsConflict(p)
  \/ EnsureCountersRead(p) \/ EnsureCountersWriteOk(p) \/ EnsureCountersConflict(p)
  \/ EnsureTotalsRead(p) \/ EnsureTotalsCount(p)
  \/ EnsureTotalsWriteOk(p) \/ EnsureTotalsConflict(p)
  \/ EnsureSchemaRead(p) \/ EnsureSchemaWriteOk(p) \/ EnsureSchemaConflict(p)

NextBoot ==
  \E p \in 1..NProcs :
    \/ NextIdNoDb(p)
    \/ \E id \in 0..1 : SaveNoDb(p, id, "a")
    \/ DeleteNoDb(p, 1, "a")
    \/ InitApp(p)
    \/ BootStep(p)
    \/ CallNextId(p)
    \/ CallEnsure(p, MaxId)
    \/ CallUpdateTotal(p, 1)
    \/ CounterStep(p)

SpecBoot == InitBoot /\ [][NextBoot]_vars

\* SpecRetry: NProcs store instances that load the one stored railroad,
\* change it and save it, and save again after a conflict.
InitRetry ==
  /\ ctr = OneDocStore.c /\ docs = OneDocStore.d
  /\ InitProcs(1..NProcs, {1}, MaxRetryOps)
  /\ InitQueryIdle

NextRetry ==
  \E p \in 1..NProcs :
    \/ Get(p, 1)
    \/ \E v \in Vals : SaveChanged(p, 1, v)
    \/ \E v \in Vals : RetrySave(p, v)
    \/ SaveWriteOk(p) \/ SaveWriteConflict(p)

SpecRetry == InitRetry /\ [][NextRetry]_vars

\* SpecQuery: queries over a static data set: any entities with ids from
\* QIds, the counter and the total in step with them.
InitQuery ==
  /\ \E S \in SUBSET QIds : \E ff \in [S -> FVals], gg \in [S -> GVals] :
       /\ qdata = AllDocsRows({[id |-> i, f |-> ff[i], g |-> gg[i]] : i \in S})
       /\ docs = [i \in S |-> [rev |-> 1, live |-> TRUE, val |-> "a"]]
       /\ ctr = [rev |-> 1, next |-> 10, hasNext |-> TRUE, hasTotal |-> TRUE, total |-> Cardinality(S)]
  /\ qry = NoQuery
  /\ qres = NoResult
  /\ InitProcs({1}, {1}, 0)

NextQuery ==
  \/ QNew
  \/ \E v \in FVals : QFilterBy("f", v)
  \/ \E v \in GVals : QFilterBy("g", v)
  \/ \E field \in {"id", "f"}, reverse \in BOOLEAN : QOrderBy(field, reverse)
  \/ QAll
  \/ QTotal
  \/ \E page \in 0..MaxPage, perPage \in 0..MaxPerPage : QPage(page, perPage)
  \/ \E page \in 0..MaxPage, perPage \in 1..MaxPerPage : QPaginate(page, perPage)

SpecQuery == InitQuery /\ [][NextQuery]_vars

\* SpecTotal: total() and count() of any query over a static data set with
\* ids from TotalIds, the stored total being right, too high or zero, and
\* the total key present or missing.
TotalIds == {1, 2}

InitTotal ==
  /\ \E S \in SUBSET TotalIds : \E ff \in [S -> FVals], gg \in [S -> GVals] :
     \E t \in {0, Cardinality(S), Cardinality(S) + 1}, has \in BOOLEAN :
       /\ qdata = AllDocsRows({[id |-> i, f |-> ff[i], g |-> gg[i]] : i \in S})
       /\ docs = [i \in S |-> [rev |-> 1, live |-> TRUE, val |-> "a"]]
       /\ ctr = [rev |-> 1, next |-> 10, hasNext |-> TRUE, hasTotal |-> has, total |-> IF has THEN t ELSE 0]
  /\ qry = NoQuery
  /\ qres = NoResult
  /\ InitProcs({1}, {1}, 0)

NextTotal ==
  \/ QNew
  \/ \E v \in FVals : QFilterBy("f", v)
  \/ \E v \in GVals : QFilterBy("g", v)
  \/ \E field \in {"id", "f"}, reverse \in BOOLEAN : QOrderBy(field, reverse)
  \/ QTotal
  \/ QCount

SpecTotal == InitTotal /\ [][NextTotal]_vars

(***************************************************************************)
(* Properties of next_id (SpecNextId).                                     *)
(***************************************************************************)
Returned == {p \in Procs : ret[p].op = "next_id"}

Quiet == \A p \in Procs : pc[p] = "idle"

\* C1: whenever some N callers of next_id have all returned and no other
\* call is under way, the N values returned are pairwise distinct and are
\* exactly c+1 .. c+N, c being the counter the calls started from; at any
\* time the values returned so far are pairwise distinct and above c.
C1_NextIdDistinctGapless ==
  /\ \A p, q \in Returned : p # q => ret[p].id # ret[q].id
  /\ \A p \in Returned : ret[p].id > obs.c0
  /\ Quiet => {ret[p].id : p \in Returned} = (obs.c0 + 1)..(obs.c0 + Cardinality(Returned))

\* The scenario of two callers from 10: caller 2 got 11, caller 1 got 12.
C1_Witness ==
  /\ obs.c0 = 10
  /\ Returned = {1, 2}
  /\ Quiet
  /\ ret[2].id = 11
  /\ ret[1].id = 12

(***************************************************************************)
(* Properties of concurrent store instances (Spec).                        *)
(***************************************************************************)
SavedOk(p) == ret[p].op = "save" /\ ret[p].ok

\* C2: a save that succeeds presented the revision the document had when
\* it was written (none for an absent document), and of two store
\* instances that saved the same persisted entity from the same revision
\* at most one succeeded; a save that failed raised a conflict.
C2_NoLostUpdate ==
  /\ \A p \in Procs : SavedOk(p) => ret[p].base = ret[p].stored
  /\ \A p, q \in Procs :
       (/\ p # q
        /\ ret[p].op = "save" /\ ret[q].op = "save"
        /\ ret[p].id = ret[q].id
        /\ ret[p].base # NoRev /\ ret[p].base = ret[q].base)
       => ~(ret[p].ok /\ ret[q].ok)
  /\ \A p \in Procs : ret[p].op = "save" /\ ~ret[p].ok => ret[p].err = "conflict"

\* Both instances held document 1 at revision 1 and changed it; the save
\* of instance 1 was stored and the save of instance 2 raised the conflict.
C2_Witness ==
  /\ SavedOk(1) /\ ret[1].id = 1 /\ ret[1].base = 1
  /\ ret[2].op = "save" /\ ~ret[2].ok /\ ret[2].err = "conflict"
  /\ ret[2].id = 1 /\ ret[2].base = 1
  /\ docs[1].rev = 2
  /\ docs[1].val = heap[1][1].val
  /\ heap[2][1].val # docs[1].val

\* C3: a successful save of a new entity without id gives it an id above
\* every explicit id that a save had successfully written before it began.
C3_AllocatedAboveExplicit ==
  \A p \in Procs :
    SavedOk(p) /\ ret[p].alloc => ret[p].id >= ret[p].floor + 1

\* An entity saved with the explicit id 2 on the empty store, then an
\* entity saved without id: it got 3.
C3_Witness ==
  \E p \in Procs :
    /\ SavedOk(p) /\ ret[p].alloc
    /\ ret[p].floor = 2
    /\ ret[p].id = 3
    /\ obs.c0 = 0

\* C5: the stored total is never negative.
C5_TotalNeverNegative == ctr.hasTotal => ctr.total >= 0

\* The race the floor is there for: instance 1 has written a new document
\* but not yet its +1, and instance 2 has deleted that document: its -1
\* found the total at 0 and left it at 0.
C5_Witness ==
  /\ pc[1] = "tot_read" /\ loc[1].op = "save"
  /\ ret[2].op = "delete" /\ ret[2].ok /\ ret[2].found
  /\ ret[2].before = 0
  /\ ctr.hasTotal /\ ctr.total = 0

(***************************************************************************)
(* Properties of a single store instance (SpecSeq).                        *)
(***************************************************************************)
\* C4: with no concurrent writer and the total key present, total() after
\* a successful save of a new entity (one without revision) is total()
\* before plus 1, after a successful delete of an entity whose document
\* existed it is total() before minus 1, and after a successful save of a
\* persisted entity it is total() before.
C4_TotalFollowsWrites ==
  LET r == ret[1] IN
  ctr.hasTotal =>
    /\ r.op = "save" /\ r.ok /\ r.base = NoRev => r.after = r.before + 1
    /\ r.op = "delete" /\ r.ok /\ r.found => r.after = r.before - 1
    /\ r.op = "save" /\ r.ok /\ r.base # NoRev => r.after = r.before

\* From the store of one railroad: a second entity was created (total 2)
\* and saved again (revision 2, total 2), then the first was deleted: the
\* total went from 2 to 1.
C4_Witness ==
  /\ ctr.hasTotal
  /\ ret[1].op = "delete" /\ ret[1].ok /\ ret[1].found /\ ret[1].id = 1
  /\ ret[1].before = 2 /\ ret[1].after = 1
  /\ DocOf(2).live /\ DocOf(2).rev = 2
  /\ ~DocOf(1).live

(***************************************************************************)
(* Properties of the session (SpecSession).                                *)
(***************************************************************************)
\* C6: on the empty store (counter 0, total 0): the commit of a first new
\* entity without id gives it id 1 and leaves total() at 1; the commit of
\* a second gives it id 2 and total() 2; the delete of the first leaves
\* total() at 1, and from then until the next write get(1) finds nothing
\* while get(2) returns the second entity: id 2, the stored document as it
\* was committed, and the fields as committed unless the caller assigned
\* them since.
C6_CreateCreateDelete ==
  /\ obs.scn \in {"1", "2", "3"} => obs.first.id = 1
  /\ obs.scn = "1" => ret[1].after = 1
  /\ obs.scn \in {"2", "3"} => obs.second.id = 2
  /\ obs.scn = "2" => ret[1].after = 2
  /\ obs.scn = "3" => ret[1].after = 1
  /\ obs.scn = "3" /\ pc[1] = "idle" =>
       /\ QueryTotal = 1
       /\ ~GetFound(1, 1)
       /\ GetFound(1, 2)
       /\ GetObj(1, 2).id = 2
       /\ GetObj(1, 2).dirty \/ GetObj(1, 2).val = obs.second.val
       /\ DocOf(2).live /\ DocOf(2).val = obs.second.val

\* The scenario has run to its end and the second entity is untouched.
C6_Witness ==
  /\ obs.c0 = 0
  /\ obs.scn = "3" /\ pc[1] = "idle"
  /\ ret[1].op = "delete" /\ ret[1].id = 1 /\ ret[1].found
  /\ obs.first.id = 1 /\ obs.second.id = 2
  /\ ~GetObj(1, 2).dirty
  /\ QueryTotal = 1

(***************************************************************************)
(* Properties of the query engine (SpecQuery).                             *)
(***************************************************************************)
Range(s) == {s[i] : i \in 1..Len(s)}

Ids(s) == {s[i].id : i \in 1..Len(s)}

\* s holds the entities of t, each once, in ascending order of their id.
IsAscendingById(s, t) ==
  /\ Len(s) = Len(t)
  /\ Range(s) = Range(t)
  /\ \A i, j \in 1..Len(s) : i < j => s[i].id < s[j].id

\* page(1, n) \o page(2, n) \o ... \o page(k, n) of the default query.
RECURSIVE PagesUpTo(_, _)
PagesUpTo(k, n) ==
  IF k = 0 THEN <<>> ELSE PagesUpTo(k - 1, n) \o QueryPage(NoQuery, k, n)

\* The default query: no filter, no order_by.
IsDefault(q) == DOMAIN q.filters = {} /\ q.sortField = ""

\* C7: on the static data set, unfiltered and in default order, for every
\* page size n >= 1: page(1, n) and page(2, n) share no entity, page(2, n)
\* goes on where page(1, n) stops, and the pages one after the other are
\* all() in ascending order of the numeric id; a page call returns the
\* slice of that order its number and size name.
C7_PagesTileAllById ==
  (qres.op = "page" /\ IsDefault(qry)) =>
    /\ \A n \in 1..MaxPerPage :
         LET pages == PagesUpTo(Len(qdata) + 1, n)
             p1 == QueryPage(NoQuery, 1, n)
             p2 == QueryPage(NoQuery, 2, n)
         IN  /\ IsAscendingById(pages, QueryAll(NoQuery))
             /\ Ids(p1) \cap Ids(p2) = {}
             /\ p1 = SubSeq(pages, 1, Len(p1))
             /\ p2 = SubSeq(pages, Len(p1) + 1, Len(p1) + Len(p2))
             /\ Len(p1) = Min(n, Len(qdata))
    /\ (qres.page >= 1 /\ qres.perPage >= 1) =>
         LET pages == PagesUpTo(Len(qdata) + 1, qres.perPage)
             from == (qres.page - 1) * qres.perPage
         IN  qres.items = SubSeq(pages, from + 1, Min(Len(pages), from + qres.perPage))

\* The entities 1, 2 and 10, which all() returns as 1, 10, 2: page(2, 2)
\* of the default query returned the entity 10 alone.
C7_Witness ==
  /\ Ids(qdata) = {1, 2, 10}
  /\ qdata[2].id = 10
  /\ qres.op = "page" /\ IsDefault(qry)
  /\ qres.page = 2 /\ qres.perPage = 2
  /\ Len(qres.items) = 1 /\ qres.items[1].id = 10

\* The last page of a query for a page size.
LastPage(q, n) == Max(1, Ceil(Len(QueryAll(q)), n))

NearestPage(q, page, n) == Min(Max(1, page), LastPage(q, n))

NoneLast(s, field) ==
  \A i, j \in 1..Len(s) :
    Attr(s[i], field) = None /\ Attr(s[j], field) # None => j < i

\* entities of s that have the same field value stand in s as in t.
KeepsInputOrder(s, t, field) ==
  \A i, j \in 1..Len(s) :
    (i < j /\ Attr(s[i], field) = Attr(s[j], field)) =>
      \E a, b \in 1..Len(t) : a < b /\ t[a] = s[i] /\ t[b] = s[j]

\* The list Query.all sorts: the filtered or the whole data set.
Unsorted(q) == QueryAll([q EXCEPT !.sortField = ""])

\* C9 as it is stated: after order_by(field, reverse), all() has every
\* entity whose field is None after every entity whose field is not, for
\* reverse False and for reverse True, and entities with equal keys are in
\* their input order.
C9_NoneLastStable ==
  (qres.op = "all" /\ qry.sortField # "") =>
    /\ NoneLast(qres.items, qry.sortField)
    /\ KeepsInputOrder(qres.items, Unsorted(qry), qry.sortField)

\* C10: filter_by(k1=v1, ..., kn=vn).all() returns the entities of the data
\* set whose every named attribute equals the value given, each once and no
\* other, and the empty list when there is none.
C10_FilterIsConjunction ==
  (qres.op = "all" /\ DOMAIN qry.filters # {}) =>
    LET want == {e \in Range(qdata) :
                   \A k \in DOMAIN qry.filters : Attr(e, k) = qry.filters[k]}
    IN  /\ Range(qres.items) = want
        /\ Len(qres.items) = Cardinality(want)
        /\ want = {} => qres.items = <<>>

\* filter_by(f=1, g=1) returned one entity of three: one of the others
\* agrees on f alone, the third on g alone.
C10_Witness ==
  /\ qres.op = "all"
  /\ DOMAIN qry.filters = {"f", "g"}
  /\ qry.filters["f"] = 1 /\ qry.filters["g"] = 1
  /\ Len(qdata) = 3 /\ Len(qres.items) = 1
  /\ \E e \in Range(qdata) : e.f = 1 /\ e.g # 1
  /\ \E e \in Range(qdata) : e.f # 1 /\ e.g = 1

(***************************************************************************)
(* The identity cache                                                      *)
(***************************************************************************)
\* The objects all() would return in the current state, row by row (no
\* list when the heap of the model has no room for them).
AllSlots(p) ==
  IF Fits(p, AllDocsIds) THEN Hydrate(heap[p], cache[p], AllDocsIds).out ELSE <<>>

\* The cache of p is an identity map: one entry for an id, each entry an
\* object of that id, and get and all return the entry of an id that has
\* one.
IdentityMap(p) ==
  LET rows == AllDocsIds
      out == AllSlots(p)
  IN
  /\ \A i \in 1..Len(cache[p]) :
       LET id == cache[p][i].id
           s == cache[p][i].slot
       IN  /\ \A j \in 1..Len(cache[p]) : cache[p][j].id = id => j = i
           /\ heap[p][s].used /\ heap[p][s].id = id
           /\ GetSlot(p, id) = s
  /\ \A k \in 1..Len(out) :
       CacheHas(cache[p], rows[k]) => out[k] = CacheSlot(cache[p], rows[k])

\* The entry of a stored record stays the same object in a step that does
\* not delete the record.
EntriesStay(p) ==
  \A id \in 1..MaxId :
    CacheHas(cache[p], id) /\ DocOf(id).live /\ DocOf(id)'.live =>
      /\ CacheHas(cache'[p], id)
      /\ CacheSlot(cache'[p], id) = CacheSlot(cache[p], id)

\* C11: within one store instance, as long as the record is not deleted,
\* every lookup of an id (get, all, page, filter_by) returns the same
\* object: a lookup returns the cache entry of the id, makes what it loads the
\* entry, and the entry of a stored record stays the same object in every
\* step that does not delete the record.
C11_LookupsReturnSameObject ==
  /\ [](\A p \in Procs : IdentityMap(p))
  /\ [][\A p \in Procs : EntriesStay(p)]_vars

\* Railroad 1 was loaded by a lookup, changed and saved; a second object
\* with id 1 was built and its save rejected: the cache entry is still the
\* object that was loaded, and get(1) returns it.
C11_Witness ==
  /\ obs.c0 = 1 /\ DocOf(1).live /\ DocOf(1).rev = 2
  /\ \E s, t \in Slots(1) :
       /\ s # t
       /\ heap[1][s].id = 1 /\ heap[1][s].rev = 2
       /\ heap[1][t].used /\ heap[1][t].id = 1 /\ heap[1][t].rev = NoRev
       /\ GetSlot(1, 1) = s
  /\ ret[1].op = "save" /\ ~ret[1].ok
  /\ pc[1] = "idle"

(***************************************************************************)
(* Session.commit                                                          *)
(***************************************************************************)
\* C12: a commit that returns has written every staged entity and every
\* dirty cached entity, and has written no entity more than once, also when
\* an entity was staged twice or is both staged and dirty in the cache.
C12_CommitWritesEachOnce ==
  \A p \in Procs :
    ret[p].op = "commit" /\ ret[p].ok =>
      \A i, j \in 1..Len(ret[p].written) :
        ret[p].written[i].slot = ret[p].written[j].slot => i = j

\* The database rejects the save commit has reached, and p takes its step.
CommitSaveRejected(p) ==
  /\ pc[p] = "save_write" /\ loc[p].op = "commit"
  /\ ~DocAccepts(ToDoc(heap[p][loc[p].slot]))
  /\ <<pc'[p], loc'[p]>> # <<pc[p], loc[p]>>

\* The commit ends at its k-th save: the error reaches the caller, the k - 1
\* entities saved before are stored as they were saved, with their new
\* revisions and the total raised by the new ones, and nothing else was or
\* will be written: what the commit wrote are the first k - 1 staged
\* entities, the list of staged entities is as it was, and a later one that
\* was never stored still is not.
CommitStopsThere(p) ==
  LET l == loc[p]
      r == ret'[p]
      k == Len(l.written) + 1
      done == {l.written[i].slot : i \in 1..Len(l.written)}
  IN
  /\ pc'[p] = "idle" /\ r.op = "commit" /\ ~r.ok /\ r.err = "conflict"
  /\ <<ctr', docs', heap', cache'>> = <<ctr, docs, heap, cache>>
  /\ r.written = l.written /\ r.slot = l.slot
  /\ \A i \in 1..Len(l.written) :
       LET w == l.written[i]
           o == heap[p][w.slot]
       IN  /\ DocOf(w.id).live /\ DocOf(w.id).val = w.val
           /\ o.id = w.id /\ o.rev = DocOf(w.id).rev /\ ~o.dirty
  /\ r.after = l.before + Cardinality({i \in 1..Len(l.written) : l.written[i].isNew})
  /\ l.phase = 1 =>
       /\ pending'[p] = pending[p]
       /\ k <= Len(pending[p]) /\ pending[p][k] = l.slot
       /\ \A i \in 1..(k - 1) : l.written[i].slot = pending[p][i]
       /\ \A i \in (k + 1)..Len(pending[p]) :
            LET o == heap'[p][pending[p][i]] IN
            pending[p][i] \notin done \cup {l.slot} /\ o.rev = NoRev =>
              /\ o.dirty
              /\ CacheHas(cache'[p], o.id) => CacheSlot(cache'[p], o.id) # pending[p][i]

\* C13: commit is not atomic across documents: when the k-th save of a
\* commit is rejected, the entities saved before it stay stored (revisions
\* taken over, total raised), the k-th and the later ones are not written,
\* and the error reaches the caller of commit.
C13_CommitNotAtomic ==
  [][\A p \in Procs : CommitSaveRejected(p) => CommitStopsThere(p)]_vars

\* A commit failed at its second save, after it had created a document.
C13_Witness ==
  /\ pc[1] = "idle" /\ ret[1].op = "commit" /\ ~ret[1].ok
  /\ Len(ret[1].written) = 1 /\ ret[1].written[1].isNew
  /\ ret[1].after = ret[1].before + 1
  /\ Len(pending[1]) = 2

\* The delete of an entity whose document it found returns to its caller.
DeleteReturns(p) ==
  /\ pc[p] # "idle" /\ loc[p].op = "delete" /\ loc[p].docRev # 0
  /\ pc'[p] = "idle" /\ ret'[p].ok

\* C14: Session.delete acts at once and without a commit: when it returns
\* for a stored entity the document is gone from the store, the cache has
\* no entry for the id, the total is one less than when the call began, and
\* what is staged for commit is as it was.
C14_DeleteIsImmediate ==
  [][\A p \in Procs :
       DeleteReturns(p) =>
         /\ ~docs'[loc[p].id].live
         /\ ~CacheHas(cache'[p], loc[p].id)
         /\ ret'[p].after = loc[p].before - 1
         /\ ctr'.total = ret'[p].after
         /\ pending'[p] = pending[p]]_vars

\* A delete has returned while an entity is staged and nothing of it is
\* committed.
C14_Witness ==
  /\ pc[1] = "idle" /\ ret[1].op = "delete" /\ ret[1].ok /\ ret[1].found
  /\ ret[1].after = ret[1].before - 1
  /\ ~DocOf(ret[1].id).live
  /\ pending[1] # <<>>
  /\ heap[1][pending[1][1]].rev = NoRev

(***************************************************************************)
(* Properties of the counter service (SpecCounters).                       *)
(***************************************************************************)
Ensured == {p \in Procs : ret[p].op = "ensure"}

\* C15: ensure_counter_at_least(key, v) never lowers the counter: from its
\* return on the counter is at least v and at least what it was when the
\* call began, whatever next_id and ensure_counter_at_least calls run
\* beside it; and no step of any of them lowers the counter.
C15_EnsureNeverLowers ==
  [][/\ ctr'.next >= ctr.next
     /\ \A p \in Procs :
          ret'[p].op = "ensure" =>
            /\ ret'[p].ok
            /\ ctr'.next >= ret'[p].id
            /\ ctr'.next >= ret'[p].start]_vars

\* From 10: an ensure of 12 has returned, an ensure of 11 that began at 10
\* met the counter at 12 after its write was rejected, and a next_id that
\* began after both got 13.
C15_Witness ==
  /\ ret[1].op = "ensure" /\ ret[1].id = 12 /\ ret[1].start = 10
  /\ ret[2].op = "ensure" /\ ret[2].id = 11 /\ ret[2].start = 10 /\ ret[2].tries = 1
  /\ ret[3].op = "next_id" /\ ret[3].id = 13
  /\ ctr.next = 13
  /\ Quiet

Totalled == {p \in Procs : ret[p].op = "total"}

RECURSIVE SumDelta(_)
SumDelta(P) ==
  IF P = {} THEN 0
  ELSE LET p == CHOOSE q \in P : TRUE IN ret[p].delta + SumDelta(P \ {p})

\* The highest value a returned ensure_counter_at_least was given.
MaxEnsured == IF Ensured = {} THEN 0
              ELSE CHOOSE v \in {ret[p].id : p \in Ensured} :
                     \A p \in Ensured : ret[p].id <= v

\* C16: no caller of next_id, ensure_counter_at_least or the total update
\* sees a conflict on the counters document, and no update is lost or made
\* twice: the total is its start plus the deltas of the updates that have
\* returned; the values next_id returned are distinct; the counter has
\* gone up by one for every next_id that returned, is at least every value
\* it was ensured to, and is no higher than those calls account for.
C16_CounterConflictsAbsorbed ==
  /\ \A p \in Procs : ret[p].ok /\ ret[p].err = ""
  /\ ctr.total = TotalStart + SumDelta(Totalled)
  /\ \A p, q \in Returned : p # q => ret[p].id # ret[q].id
  /\ \A p \in Returned : ret[p].id <= ctr.next
  /\ ctr.next >= obs.c0 + Cardinality(Returned)
  /\ ctr.next >= MaxEnsured
  /\ ctr.next <= Max(obs.c0, MaxEnsured) + Cardinality(Returned)

\* All three services have returned, the total update after two rejected
\* writes and next_id after one.
C16_Witness ==
  /\ Quiet
  /\ ret[1].op = "total" /\ ret[1].tries = 2
  /\ ret[2].op = "next_id" /\ ret[2].tries = 1
  /\ ret[3].op = "ensure" /\ ret[3].id = 12 /\ ret[3].tries = 0
  /\ obs.c0 = 10
  /\ ctr.rev = 4

(***************************************************************************)
(* Conflicts on entity documents (Spec).                                   *)
(***************************************************************************)
\* The database rejects the document write of a save of p, and p takes its
\* step.
SaveRejected(p) ==
  /\ pc[p] = "save_write" /\ loc[p].op = "save"
  /\ ~DocAccepts(ToDoc(heap[p][loc[p].slot]))
  /\ <<pc'[p], loc'[p], heap'[p]>> # <<pc[p], loc[p], heap[p]>>

\* C17: save does not retry a conflict on the entity document: the one
\* rejected write ends the call with the conflict raised to the caller; the
\* stored documents, the total and the cache are as they were, and the entity
\* keeps the revision it had and its dirty flag (a changed entity stays
\* dirty).
C17_SaveConflictNotRetried ==
  [][\A p \in Procs :
       SaveRejected(p) =>
         LET s == loc[p].slot IN
         /\ pc'[p] = "idle"
         /\ ret'[p].op = "save" /\ ~ret'[p].ok /\ ret'[p].err = "conflict"
         /\ docs' = docs
         /\ ctr'.total = ctr.total /\ ctr' = ctr
         /\ cache' = cache
         /\ heap'[p][s].rev = heap[p][s].rev /\ heap'[p][s].rev = loc[p].base
         /\ heap'[p][s].dirty = heap[p][s].dirty
         /\ heap'[p][s].val = heap[p][s].val]_vars

\* Instance 2 loaded document 1, changed it, and its save was rejected
\* because instance 1 had deleted the document: the entity is still dirty
\* at revision 1 and still the cache entry of instance 2.
C17_Witness ==
  /\ pc[2] = "idle" /\ ret[2].op = "save" /\ ~ret[2].ok /\ ret[2].err = "conflict"
  /\ ret[2].id = 1 /\ ret[2].base = 1
  /\ ret[1].op = "delete" /\ ret[1].ok /\ ret[1].id = 1
  /\ ~DocOf(1).live
  /\ heap[2][1].dirty /\ heap[2][1].rev = 1
  /\ CacheHas(cache[2], 1)

\* C18: after a save was rejected, the caller reads the record again
\* through get on the same store instance, applies its change again and
\* saves: that save is accepted when the record exists and nobody wrote it
\* between the second read and the write.
C18_RetryAfterRereadSucceeds ==
  \A p \in Procs :
    (/\ ret[p].op = "save" /\ ret[p].retry
     /\ ret[p].reread # 0 /\ ret[p].met = ret[p].reread)
    => ret[p].ok

(***************************************************************************)
(* Progress of the counter service (FairSpecCounters).                     *)
(***************************************************************************)
RECURSIVE SumTries(_)
SumTries(P) ==
  IF P = {} THEN 0
  ELSE LET p == CHOOSE q \in P : TRUE
       IN  loc[p].tries + ret[p].tries + SumTries(P \ {p})

\* A write is rejected only after another write was accepted: a call was
\* rejected no more often than the counters document was written since the
\* call began, and all calls together no more often than every accepted
\* write can account for, one rejection per other caller.
LockFree ==
  /\ \A p \in Procs :
       /\ loc[p].tries <= ctr.rev - loc[p].rev0
       /\ ret[p].tries <= ctr.rev - ret[p].rev0
       /\ pc[p] \in {"nid_write", "ens_write", "tot_write"} /\ CountersConflict(loc[p].snap)
            => ctr.rev > loc[p].snap.rev
  /\ SumTries(Procs) <= (ctr.rev - 1) * (Cardinality(Procs) - 1)

\* C19: with every process scheduled fairly and the finitely many counter
\* operations of the model, every operation that was started returns, and
\* the retry loops are lock-free: in every round of conflicting writes one
\* writer succeeds.
\* (An operation that never returned would keep Quiet false from its start
\* on: that no operation is running holds again and again says that each
\* one returns.)
C19_CounterOpsReturn ==
  /\ []LockFree
  /\ []<>Quiet

\* Three next_id calls met in one round: one was accepted at once, one
\* after one rejected write and one after two.
C19_Witness ==
  /\ Quiet
  /\ \A p \in Procs : ret[p].op = "next_id"
  /\ ret[1].tries = 2 /\ ret[2].tries = 1 /\ ret[3].tries = 0
  /\ ctr.next = obs.c0 + 3

(***************************************************************************)
(* Query.total (SpecTotal).                                                *)
(***************************************************************************)
\* The query has no filter, its sort field is unset or "id", and the
\* counters document has the total key.
CounterAnswers(q) ==
  /\ DOMAIN q.filters = {}
  /\ q.sortField \in {"", "id"}
  /\ ctr.hasTotal

\* C20: total() returns the stored total, and builds no list, exactly when
\* the query has no filter, its sort field is unset or "id" and the total
\* key exists; in every other case it returns the number of items of all(),
\* which is what count() returns.
C20_TotalCounterOrScan ==
  /\ qres.op = "total" /\ CounterAnswers(qry) =>
       qres.n = ctr.total /\ qres.items = <<>>
  /\ qres.op = "total" /\ ~CounterAnswers(qry) =>
       /\ qres.items = QueryAll(qry)
       /\ qres.n = Len(qres.items)
       /\ qres.n = QueryCount(qry)
  /\ qres.op = "count" => qres.n = Len(QueryAll(qry))

\* Two railroads are stored and the stored total is 0: total() of the
\* unfiltered query ordered by id, descending, returned 0.
C20_Witness ==
  /\ qres.op = "total" /\ qres.n = 0
  /\ Len(qdata) = 2 /\ ctr.hasTotal
  /\ qry.filters = <<>> /\ qry.sortField = "id" /\ qry.sortReverse

(***************************************************************************)
(* Identity of (type, id).                                                 *)
(***************************************************************************)
\* The save of a new entity by p has its document accepted in this step.
CreateStep(p) ==
  /\ pc[p] = "save_write" /\ loc[p].isNew
  /\ pc'[p] # "save_write" /\ docs' # docs

\* No save changes the id an entity has.
IdsStay ==
  \A p \in Procs : \A s \in Slots(p) :
    heap[p][s].used /\ heap[p][s].id # NoId => heap'[p][s].id = heap[p][s].id

Converts(p) == ret'[p] # ret[p] /\ ret'[p].op = "from_doc"

\* C22: for every entity e with an id, from_doc(to_doc(e), store) yields an
\* entity of the type of e whose declared public fields (id and val) are
\* those of e, whose revision is that of e and which is not dirty, whatever
\* the dirty flag and the underscore field of e are.
C22_RoundTrip ==
  [][\A p \in Procs :
       Converts(p) =>
         LET e == heap[p][ret'[p].written[1].slot]
             b == heap'[p][ret'[p].slot]
         IN  e.id # NoId =>
               /\ b.used /\ ~heap[p][ret'[p].slot].used
               /\ DocId(b)[1] = DocId(e)[1]
               /\ b.id = e.id /\ b.val = e.val
               /\ b.rev = e.rev
               /\ ~b.dirty]_vars

\* A saved entity that was changed since (dirty, with a related object set)
\* went to a document and back: the copy has its id, value and revision,
\* is clean and has no related object.
C22_Witness ==
  /\ ret[1].op = "from_doc" /\ pc[1] = "idle"
  /\ \E s, t \in Slots(1) :
       /\ ret[1].written[1].slot = s /\ ret[1].slot = t /\ s # t
       /\ heap[1][s].id # NoId /\ heap[1][s].rev # NoRev
       /\ heap[1][s].dirty /\ heap[1][s].ref # NoRef /\ heap[1][s].val = "b"
       /\ heap[1][t].id = heap[1][s].id /\ heap[1][t].rev = heap[1][s].rev
       /\ heap[1][t].val = "b" /\ ~heap[1][t].dirty /\ heap[1][t].ref = NoRef

\* A lookup of p (get, all, page) loads documents in this step.
Loads(p) == pc[p] = "idle" /\ pc'[p] = "idle" /\ cache'[p] # cache[p]

\* An attribute of the entity of slot s of p is assigned in this step.
Assigns(p, s) ==
  /\ pc[p] = "idle" /\ pc'[p] = "idle" /\ pending'[p] = pending[p]
  /\ heap[p][s].used /\ heap'[p][s] # heap[p][s]

\* C24: the dirty flag.  An entity from_doc builds (for get, all, page, or
\* from a document at hand) is not dirty; an assignment to the public
\* attribute of an entity sets the flag, one to the underscore attribute
\* leaves it as it is; Session.add sets it; and an accepted save clears it,
\* leaves the entity with an id and the revision the store gave, and makes
\* the object the cache entry of its id.
C24_DirtyLifecycle ==
  [][\A p \in Procs :
       /\ Loads(p) =>
            \A i \in 1..Len(cache'[p]) :
              ~CacheHas(cache[p], cache'[p][i].id) =>
                /\ ~heap'[p][cache'[p][i].slot].dirty
                /\ heap'[p][cache'[p][i].slot].tracking
       /\ Converts(p) => ~heap'[p][ret'[p].slot].dirty
       /\ \A s \in Slots(p) :
            Assigns(p, s) =>
              IF heap'[p][s].ref # heap[p][s].ref
              THEN heap'[p][s] = [heap[p][s] EXCEPT !.ref = heap'[p][s].ref]
              ELSE /\ heap'[p][s].dirty
                   /\ heap'[p][s] = [heap[p][s] EXCEPT !.val = heap'[p][s].val,
                                                       !.dirty = TRUE]
       /\ Len(pending'[p]) > Len(pending[p]) =>
            heap'[p][pending'[p][Len(pending'[p])]].dirty
       /\ pc[p] = "save_write" /\ docs' # docs =>
            LET o == heap'[p][loc[p].slot] IN
            /\ ~o.dirty /\ o.id # NoId /\ o.rev # NoRev
            /\ o.rev = docs'[o.id].rev
            /\ CacheHas(cache'[p], o.id)
            /\ CacheSlot(cache'[p], o.id) = loc[p].slot]_vars

\* A loaded entity had its underscore attribute assigned and is clean, and
\* an entity that was built and staged is dirty.
C24_Witness ==
  /\ pc[1] = "idle"
  /\ \E s, t \in Slots(1) :
       /\ heap[1][s].used /\ heap[1][s].rev # NoRev /\ heap[1][s].ref # NoRef
       /\ ~heap[1][s].dirty /\ CacheHas(cache[1], heap[1][s].id)
       /\ heap[1][t].used /\ heap[1][t].rev = NoRev /\ heap[1][t].dirty
       /\ pending[1] = <<t>>

(***************************************************************************)
(* The total and the documents.                                            *)
(***************************************************************************)
\* C26: whenever every operation has run to completion, the total equals
\* the number of documents of the type in the store, whatever creates and
\* deletes, accepted or rejected, the processes have interleaved.
C26_TotalIsCountAtQuiescence ==
  (Quiet /\ ctr.hasTotal) => ctr.total = Cardinality(LiveIds)

\* next_id of p has its write accepted in this step (here inside a save).
Allocates(p) == pc[p] = "nid_write" /\ pc'[p] # "nid_write" /\ ctr' # ctr

\* C27: every document in the store, and every document that ever was, has
\* an id that is at most the counter: an explicit id raises the counter
\* before its document is written, an allocated one is the counter.  So
\* the value next_id hands out is the new counter and is above the id of
\* every document there is at that moment.
C27_DocsAtMostCounter ==
  /\ [](\A id \in DOMAIN docs : id <= ctr.next)
  /\ [][\A p \in Procs :
          Allocates(p) =>
            /\ heap'[p][loc[p].slot].id = ctr'.next
            /\ \A id \in DOMAIN docs' : id < heap'[p][loc[p].slot].id]_vars

\* On the empty store one instance saved an entity with the explicit id 2
\* and the other one without id, which was given 3.
C27_Witness ==
  /\ Quiet /\ obs.c0 = 0
  /\ DocOf(2).live /\ DocOf(3).live /\ ~DocOf(1).live
  /\ ctr.next = 3
  /\ \E p \in Procs : ret[p].op = "save" /\ ret[p].ok /\ ret[p].alloc /\ ret[p].id = 3

\* C28: the save of a new entity that came without id is never rejected
\* with a document conflict, whatever saves of new entities with explicit
\* ids other processes run at the same time: the id next_id handed out is
\* still free when the caller writes its document.
C28_AllocatedIdIsFree ==
  \A p \in Procs :
    ret[p].op = "save" /\ ret[p].isNew /\ ret[p].alloc => ret[p].err # "conflict"

\* The delete of p is at its total update.
Lowering(p) == loc[p].op = "delete" /\ pc[p] \in {"tot_read", "tot_write"}

\* C30: each deleted document lowers the total exactly once.  A delete
\* comes to its total update only in the step in which its db.delete
\* removed the document, and that step is the step of one process; its
\* update lowers the total by one (not below 0) in one accepted write and
\* the delete returns.  A delete of an entity without id, or whose document
\* is not there, returns without a write; one whose db.delete is rejected,
\* as the later of two concurrent deletes of a document, raises with the
\* total as it is.
C30_DeleteLowersTotalOnce ==
  [][/\ \A p \in Procs :
          /\ Lowering(p)' /\ ~Lowering(p) =>
               /\ pc[p] = "del_write"
               /\ DocOf(loc[p].id).live /\ ~docs'[loc[p].id].live
               /\ loc'[p].delta = -1
               /\ \A q \in Procs \ {p} : pc'[q] = pc[q]
          /\ Lowering(p) /\ ctr' # ctr /\ loc'[p] # loc[p] =>
               /\ ctr'.total = Max(0, ctr.total - 1)
               /\ pc'[p] = "idle" /\ ret'[p].op = "delete" /\ ret'[p].ok
          /\ ret'[p] # ret[p] /\ ret'[p].op = "delete" /\ ~Lowering(p) =>
               /\ ctr' = ctr /\ docs' = docs
               /\ ret'[p].ok =>
                    /\ pc[p] = "idle"
                    /\ ret'[p].id = NoId \/ ~DocOf(ret'[p].id).live
     /\ \A id \in DOMAIN docs :
          docs[id].live /\ ~docs'[id].live => \E p \in Procs : Lowering(p)' /\ ~Lowering(p)
     ]_vars

\* Two instances deleted the one document of the store at the same time:
\* one delete went through and lowered the total from 1 to 0, the other
\* raised a conflict.
C30_Witness ==
  /\ Quiet /\ obs.c0 = 1
  /\ ~DocOf(1).live /\ DocOf(1).rev = 2
  /\ ctr.total = 0
  /\ \E p, q \in Procs :
       /\ ret[p].op = "delete" /\ ret[p].ok /\ ret[p].id = 1
       /\ ret[q].op = "delete" /\ ~ret[q].ok /\ ret[q].err = "conflict"
       /\ heap[q][1].id = 1

(***************************************************************************)
(* A store without a database handle.                                      *)
(***************************************************************************)
\* A call of next_id or save on the store of p, which has no handle,
\* comes back in this step.
CalledWithoutHandle(p) ==
  /\ pc[p] = "uninit"
  /\ ret'[p] # ret[p]
  /\ ret'[p].op \in {"next_id", "save"}

\* C25: next_id and save on a store that was never initialized raise the
\* error "CouchDB is not initialized." and change nothing: no document,
\* counter or cache entry, the store still has no handle, and the entity
\* handed to save keeps the id it came with, has no revision and is not
\* dirty.
C25_NoHandleIsAnError ==
  [][\A p \in Procs :
       CalledWithoutHandle(p) =>
         /\ ~ret'[p].ok /\ ret'[p].err = "not initialized"
         /\ UNCHANGED <<ctr, docs, meta, cache, pending>>
         /\ pc'[p] = "uninit"
         /\ ret'[p].op = "save" =>
              LET o == heap'[p][ret'[p].slot] IN
              /\ o.used /\ o.id = ret'[p].id /\ o.rev = NoRev /\ ~o.dirty
              /\ \A q \in Procs : \A s \in Slots(q) :
                   heap[q][s].used => heap'[q][s] = heap[q][s]]_vars

\* An instance was refused a save of an entity without id while another
\* instance, initialized, has allocated an id on the same database.
C25_Witness ==
  \E p, q \in Procs :
    /\ pc[p] = "uninit" /\ ret[p].op = "save" /\ ~ret[p].ok
    /\ ret[p].err = "not initialized" /\ heap[p][1].id = NoId
    /\ pc[q] = "idle" /\ ret[q].op = "next_id" /\ ret[q].ok

(***************************************************************************)
(* The bootstrap.                                                          *)
(***************************************************************************)
\* The design document defines by_type_id with the wanted map function.
ViewDefined == meta.design.rev # 0 /\ StoredMap(meta.design) = MapSource

\* C23: ensure_views is idempotent.  A run that returns leaves the design
\* document defining by_type_id with the wanted map function; a run that
\* found no document or another definition has written the wanted views in
\* one accepted write; a run on a document that has the wanted definition
\* returns without a write; and once the definition is the wanted one no
\* step of any instance changes the design document.
C23_EnsureViewsIdempotent ==
  [][/\ \A p \in Procs :
          /\ pc[p] \in {"views_read", "views_write"} /\ pc'[p] = "ctrs_read"
               => ViewDefined'
          /\ pc[p] = "views_write" /\ pc'[p] = "ctrs_read"
               => /\ ~ViewDefined
                  /\ meta'.design.views = DesiredViews
                  /\ meta'.design.rev = meta.design.rev + 1
          /\ pc[p] = "views_read" /\ pc'[p] # pc[p] /\ ViewDefined
               => pc'[p] = "ctrs_read" /\ meta' = meta
     /\ ViewDefined => meta'.design = meta.design]_vars

\* On the database of an older release one instance replaced the stored
\* definition and the other ran ensure_views after it: the design document
\* was written once, and both instances came up.
C23_Witness ==
  /\ meta.schema.archived
  /\ meta.design = [rev |-> 2, views |-> DesiredViews]
  /\ \A p \in Procs : pc[p] = "idle" /\ ret[p].op = "none"

\* A step of the bootstrap of p (ensure_counters, ensure_totals).
BootPlaces == {"views_read", "views_write", "ctrs_read", "ctrs_write", "tots_read",
               "tots_count", "tots_write", "schema_read", "schema_write"}

Boots(p) == pc[p] \in BootPlaces /\ pc'[p] # pc[p]

\* C29: the next-id counter never goes down, whatever next_id,
\* ensure_counter_at_least, total updates and bootstraps of the instances
\* interleave (a counters document or a key that is missing counts as 0);
\* and no step of a bootstrap changes a counter that has a value or a
\* total that is there: it only adds what is missing.
C29_CounterNeverGoesDown ==
  [][/\ ctr'.next >= ctr.next
     /\ ctr.hasNext => ctr'.hasNext
     /\ ctr.hasTotal => ctr'.hasTotal
     /\ \A p \in Procs :
          Boots(p) =>
            /\ ctr'.next = ctr.next
            /\ ctr.hasTotal => ctr'.total = ctr.total]_vars

\* On the database of an older release one instance came up and raised the
\* counter with next_id while the other one was in its bootstrap, which was
\* then rejected: the counter is 2 and the total the one that was counted.
C29_Witness ==
  /\ ctr.next = 2 /\ ctr.hasTotal /\ ctr.total = 1 /\ meta.schema.archived
  /\ \E p, q \in Procs :
       /\ pc[p] = "idle" /\ ret[p].op = "next_id" /\ ret[p].ok /\ ret[p].id = 2
       /\ pc[q] = "crashed" /\ ret[q].op = "init_app" /\ ret[q].err = "conflict"

(***************************************************************************)
(* Deleting within a session.                                              *)
(***************************************************************************)
\* The last call of p that returned was a delete: as in the routes
\* (db.session.delete(x); db.session.commit()), the commit comes next.
JustDeleted(p) == pc[p] = "idle" /\ ret[p].op = "delete"

\* SpecTerminal: the requests of SpecSession, with the commit right after
\* every delete: entities are staged, changed and loaded before the delete
\* or after the commit, never between the two.
NextTerminal ==
  \/ \E id \in 0..MaxId : ~JustDeleted(1) /\ AddFresh(1, id, "a")
  \/ \E s \in 1..NSlots, v \in Vals : ~JustDeleted(1) /\ SetVal(1, s, v)
  \/ \E s \in 1..NSlots : ~JustDeleted(1) /\ SessionAdd(1, s)
  \/ \E s \in 1..NSlots : ~JustDeleted(1) /\ StartDelete(1, s)
  \/ \E id \in 1..MaxId : ~JustDeleted(1) /\ Get(1, id)
  \/ StartCommit(1)
  \/ CommitLoop(1)
  \/ NextIdWriteOk(1) \/ EnsureWriteOk(1)
  \/ SaveWriteOk(1) \/ SaveWriteConflict(1)
  \/ TotRead(1) \/ TotWriteOk(1)
  \/ DelWriteOk(1)

SpecTerminal == InitSession /\ [][NextTerminal]_vars

\* The commit of p returns or raises in this step, and the call before it
\* was a delete that returned normally.
CommitAfterDelete(p) ==
  /\ pc[p] # "idle" /\ loc[p].op = "commit" /\ pc'[p] = "idle"
  /\ ret[p].op = "delete" /\ ret[p].ok

\* No other entity object of p has the id of the object in slot s.
SoleOfItsId(p, s) ==
  \A t \in Slots(p) : (t # s /\ heap[p][t].used) => heap[p][t].id # heap[p][s].id

\* The commit does not end at the save of an entity other than that of
\* slot s.
NotStoppedElsewhere(p, s) == ret'[p].ok \/ ret'[p].slot = s

\* C31: deletion is terminal within a session: when the commit that follows
\* Session.delete(e) ends (and no save of another entity has stopped it),
\* it has returned without error, no document of e is in the store, no
\* cache entry holds e and the total is the number of documents, whether or
\* not e was staged with add() or assigned to before the delete.
C31_DeletionIsTerminal ==
  [][\A p \in Procs :
       (/\ CommitAfterDelete(p)
        /\ SoleOfItsId(p, ret[p].slot)
        /\ NotStoppedElsewhere(p, ret[p].slot)) =>
         LET s == ret[p].slot
             e == heap'[p][s]
         IN  /\ ret'[p].ok
             /\ e.id = NoId \/ e.id \notin DOMAIN docs' \/ ~docs'[e.id].live
             /\ \A i \in 1..Len(cache'[p]) : cache'[p][i].slot # s
             /\ ctr'.hasTotal =>
                  ctr'.total = Cardinality({i \in DOMAIN docs' : docs'[i].live})]_vars

(***************************************************************************)
(* The session after a commit.                                             *)
(***************************************************************************)
\* Nothing is staged in the session of p and no entity of its cache is
\* dirty.
NothingToWrite(p) ==
  /\ pending[p] = <<>>
  /\ \A i \in 1..Len(cache[p]) : ~heap[p][cache[p][i].slot].dirty

\* The commit of p returns normally in this step.
CommitReturnsOk(p) ==
  /\ pc[p] # "idle" /\ loc[p].op = "commit"
  /\ pc'[p] = "idle" /\ ret'[p].op = "commit" /\ ret'[p].ok

\* p begins a commit in this step.
CommitBegins(p) == pc[p] = "idle" /\ pc'[p] = "commit_loop"

\* p is in a commit that has written nothing and has nothing to write.
CommitAtRest(p) ==
  /\ pc[p] = "commit_loop" /\ loc[p].op = "commit"
  /\ loc[p].todo = <<>> /\ loc[p].written = <<>>
  /\ NothingToWrite(p)

\* C32: when commit returns normally, nothing is staged and no cached
\* entity is dirty; and a commit that begins in such a state (as the one
\* that follows at once) goes through its two loops and returns normally
\* without writing a document or the counters.
C32_CommitLeavesNothingToWrite ==
  [][\A p \in Procs :
       /\ CommitReturnsOk(p) => NothingToWrite(p)'
       /\ (CommitBegins(p) /\ NothingToWrite(p)) => CommitAtRest(p)'
       /\ (CommitAtRest(p) /\ <<pc[p], loc[p]>>' # <<pc[p], loc[p]>>) =>
            /\ docs' = docs /\ ctr' = ctr /\ heap' = heap /\ cache' = cache
            /\ \/ CommitAtRest(p)'
               \/ CommitReturnsOk(p) /\ ret'[p].written = <<>>]_vars

\* On the empty store an entity was staged and committed (it got id 1), and
\* the commit called right after it has returned without a write: the
\* document is at its first revision.
C32_Witness ==
  /\ obs.c0 = 0
  /\ budget = MaxSessionOps - 3
  /\ pc[1] = "idle" /\ ret[1].op = "commit" /\ ret[1].ok
  /\ ret[1].written = <<>>
  /\ obs.first.id = 1 /\ DocOf(1).live /\ DocOf(1).rev = 1
  /\ NothingToWrite(1)

(***************************************************************************)
(* The cache and the store.                                                *)
(***************************************************************************)
\* C33: cache coherence with the store: whenever a store instance can be
\* called, get(id) returns an entity only if the document of that id is in
\* the store at that moment, also when another process has deleted the
\* document since this instance loaded it.
C33_GetOnlyFindsStored ==
  \A p \in Procs : \A id \in 1..MaxId :
    (pc[p] = "idle" /\ GetFound(p, id)) => DocOf(id).live

(***************************************************************************)
(* Descending pagination (SpecQuery).                                      *)
(***************************************************************************)
\* s holds the entities of t, each once, in descending order of their id.
IsDescendingById(s, t) ==
  /\ Len(s) = Len(t)
  /\ Range(s) = Range(t)
  /\ \A i, j \in 1..Len(s) : i < j => s[i].id > s[j].id

\* The unfiltered query with order_by("id", reverse=True).
IsDescendingDefault(q) ==
  DOMAIN q.filters = {} /\ q.sortField = "id" /\ q.sortReverse

\* Query.page as its in-memory branch computes it: sort and slice.
SortAndSlice(q, page, perPage) ==
  PySlice(QueryAll(q), StartIndex(page, perPage), StartIndex(page, perPage) + perPage)

\* C34: on the static data set, for the unfiltered query with
\* order_by("id", reverse=True) and every page >= 1 and page size >= 1:
\* all() is the data set in descending order of the numeric id, and the page
\* that the index-backed path returns is elements (page-1)*size ..
\* page*size-1 of it, which is the page the in-memory sort and slice gives.
C34_DescendingPagesAgree ==
  (qres.op = "page" /\ IsDescendingDefault(qry) /\ qres.page >= 1 /\ qres.perPage >= 1) =>
    LET all == QueryAll(qry)
        from == (qres.page - 1) * qres.perPage
    IN  /\ ~InMemory(qry)
        /\ IsDescendingById(all, qdata)
        /\ qres.items = SubSeq(all, from + 1, Min(Len(all), from + qres.perPage))
        /\ qres.items = SortAndSlice(qry, qres.page, qres.perPage)

\* The entities 1, 2 and 10 (which _all_docs lists as 1, 10, 2), two to a
\* page in descending order: page 2 is the entity 1, after 10 and 2.
C34_Witness ==
  /\ qres.op = "page" /\ IsDescendingDefault(qry)
  /\ Ids(qdata) = {1, 2, 10} /\ qdata[2].id = 10
  /\ qres.page = 2 /\ qres.perPage = 2
  /\ Len(qres.items) = 1 /\ qres.items[1].id = 1
  /\ QueryAll(qry)[1].id = 10 /\ QueryAll(qry)[2].id = 2

\* C35: absence is never cached: whenever a store instance can be called,
\* get(id) returns None for an id that has no document (such a get is no
\* step: it leaves the cache and everything else as it is), and returns the
\* entity of that id once some process has created the document.
C35_GetFindsExactlyStored ==
  \A p \in Procs : \A id \in 1..MaxId :
    pc[p] = "idle" =>
      /\ ~DocOf(id).live => (~GetFound(p, id) /\ GetSlot(p, id) = 0)
      /\ DocOf(id).live => (GetFound(p, id) /\ GetObj(p, id).id = id)

(***************************************************************************)
(* A create that fails, and the total.                                     *)
(***************************************************************************)
\* p is at the document write of a save (its own or one of a commit), and
\* takes its step; the entity it saves.
AtDocWrite(p) ==
  /\ pc[p] = "save_write"
  /\ <<pc[p], loc[p]>>' # <<pc[p], loc[p]>>

Saving(p) == heap[p][loc[p].slot]

\* p is in _update_total for a save and takes its step.
AtTotalOfSave(p) ==
  /\ pc[p] \in {"tot_read", "tot_write"} /\ loc[p].op \in {"save", "commit"}
  /\ <<pc[p], loc[p]>>' # <<pc[p], loc[p]>>

\* C36: a failed create is counted at most once.  When the document write
\* of a save of a new entity (one without revision) is rejected, the call
\* ends with the error, the counters document, the documents and the cache
\* are as they were and the entity still has no revision.  When the write
\* of an entity without revision is accepted (the first save, or a later
\* one of an entity whose create had failed), the entity takes its revision
\* and the total is raised for it once: _update_total ends with its first
\* accepted write, which adds exactly 1.  A save of an entity that has a
\* revision leaves the total alone.
C36_FailedCreateNotCounted ==
  [][\A p \in Procs :
       /\ (AtDocWrite(p) /\ Saving(p).rev = NoRev /\ ~DocAccepts(ToDoc(Saving(p)))) =>
            /\ pc'[p] = "idle" /\ ~ret'[p].ok /\ ret'[p].err = "conflict"
            /\ ctr' = ctr /\ docs' = docs /\ cache' = cache
            /\ heap'[p][loc[p].slot].rev = NoRev
       /\ (AtDocWrite(p) /\ Saving(p).rev = NoRev /\ DocAccepts(ToDoc(Saving(p)))) =>
            /\ pc'[p] = "tot_read" /\ ctr' = ctr
            /\ heap'[p][loc[p].slot].rev # NoRev
       /\ (AtDocWrite(p) /\ Saving(p).rev # NoRev) =>
            /\ pc'[p] \notin {"tot_read", "tot_write"} /\ ctr' = ctr
       /\ AtTotalOfSave(p) =>
            /\ Saving(p).rev # NoRev
            /\ pc[p] = "tot_read" =>
                 /\ ctr' = ctr
                 /\ pc'[p] = "tot_write" \/ ~ctr.hasTotal
            /\ pc[p] = "tot_write" =>
                 \/ ctr' = ctr /\ pc'[p] = "tot_read"
                 \/ /\ ctr'.total = ctr.total + 1
                    /\ pc'[p] \notin {"tot_read", "tot_write"}]_vars

\* The store holds railroad 1.  A new entity with the explicit id 1 was
\* built and its save rejected; railroad 1 was loaded and deleted (total
\* 0); the same new entity was saved again and is stored: the total is 1.
C36_Witness ==
  /\ obs.c0 = 1 /\ budget = 0
  /\ pc[1] = "idle"
  /\ ret[1].op = "save" /\ ret[1].ok /\ ret[1].isNew /\ ~ret[1].alloc
  /\ ret[1].id = 1 /\ ret[1].slot = 1
  /\ heap[1][2].used /\ heap[1][2].id = 1 /\ heap[1][2].rev = 1
  /\ DocOf(1).live /\ DocOf(1).rev = 3 /\ heap[1][1].rev = 3
  /\ ctr.hasTotal /\ ctr.total = 1
  /\ ret[1].before = 0 /\ ret[1].after = 1
====
